---- MODULE Spec2Model ----
(***************************************************************************)
(* md-browse: the tab / navigation-history state machine.                  *)
(*                                                                         *)
(* Two tab managers exist in the repository.  The main-process manager     *)
(* (src/bun/index.ts, the RPC request handlers) is used when the toolbar   *)
(* runs inside the application; the browser shim (toolbar-svelte/lib/      *)
(* rpc.ts, the isShim branches) is used when the toolbar runs in a plain   *)
(* browser.  isShim is fixed when the toolbar module is loaded, so a run   *)
(* of the model is a run of exactly one of the two managers.               *)
(*                                                                         *)
(* JavaScript strings are modelled as sequences of one-character strings.  *)
(* Every handler runs to its first await (the network fetch) in one step;  *)
(* the continuation after the await is the Complete step of that fetch.    *)
(* Events sent to the toolbar are applied to the toolbar store in the step *)
(* that sends them.                                                        *)
(***************************************************************************)
EXTENDS Integers, Sequences, FiniteSets, TLC

VARIABLES
    isShim,       \* rpc.ts: the toolbar runs without the main process
    tabs,         \* main process: the Tab objects, in tab-strip order
    activeTabId,  \* main process
    nextTabId,    \* main process
    shimState,    \* shim: [tabs, activeTabId, nextTabId]
    pending,      \* fetches in flight, in the order they were issued
    appStore,     \* toolbar store: [currentUrl, isLoading, canGoBack, canGoForward]
    settings,     \* settings (shim: shimSettings): [sendAcceptMd, autoConvert]
    refresh,      \* applySettings was told needsRefresh and has not gone on yet
    call,         \* a function of the document pipeline called on its own, and its input
    result        \* what the successive applications of that function returned

vars == <<isShim, tabs, activeTabId, nextTabId, shimState, pending, appStore, settings,
          refresh, call, result>>

----------------------------------------------------------------------------
(* Bounds *)

\* The runs explored are those in which, at every moment,
\*   twice the tab ids handed out + history entries of the open tabs
\*                      + twice the fetches in flight
\*                      + the settings that differ from their defaults
\* stays within MaxSize.
MaxSize == 6

----------------------------------------------------------------------------
(* Strings *)

Str_https == <<"h", "t", "t", "p", "s", ":", "/", "/">>
Str_mdbrowse == <<"m", "d", "b", "r", "o", "w", "s", "e", ":", "/", "/">>
Str_search == Str_https \o <<"d", "u", "c", "k", "d", "u", "c", "k", "g", "o", ".",
                             "c", "o", "m", "/", "?", "q", "=">>
NewTabTitle == <<"N", "e", "w", " ", "T", "a", "b">>
ErrorTitle == <<"E", "r", "r", "o", "r">>

\* String.prototype.startsWith
startsWith(s, p) == Len(s) >= Len(p) /\ SubSeq(s, 1, Len(p)) = p

\* String.prototype.includes, for a one-character needle
includes(s, ch) == \E i \in 1..Len(s) : s[i] = ch

IsSpace(ch) == ch \in {" ", "\t", "\n"}

\* String.prototype.trim
RECURSIVE trimStart(_)
trimStart(s) == IF s # <<>> /\ IsSpace(Head(s)) THEN trimStart(Tail(s)) ELSE s

RECURSIVE trimEnd(_)
trimEnd(s) ==
    IF s # <<>> /\ IsSpace(s[Len(s)]) THEN trimEnd(SubSeq(s, 1, Len(s) - 1)) ELSE s

trim(s) == trimEnd(trimStart(s))

\* String.prototype.toLowerCase, on the letters the inputs use
lower(ch) ==
    CASE ch = "H" -> "h" [] ch = "T" -> "t" [] ch = "P" -> "p" [] ch = "S" -> "s"
      [] OTHER -> ch

toLowerCase(s) == [i \in 1..Len(s) |-> lower(s[i])]

\* encodeURIComponent: a space becomes %20, unreserved characters stay
RECURSIVE encodeURIComponent(_)
encodeURIComponent(s) ==
    IF s = <<>> THEN <<>>
    ELSE (IF Head(s) = " " THEN <<"%", "2", "0">> ELSE <<Head(s)>>)
         \o encodeURIComponent(Tail(s))

\* url.match(/^https?:\/\//i)
matchesHttp(s) ==
    \/ startsWith(toLowerCase(s), Str_https)
    \/ startsWith(toLowerCase(s), <<"h", "t", "t", "p", ":", "/", "/">>)

\* a normalizeUrl without the `if (!url) return ""` line
normalizeUrl_NoEmptyCheck(raw) ==
    LET url == trim(raw)
    IN  IF startsWith(url, Str_mdbrowse) THEN url
        ELSE IF matchesHttp(url) THEN url
        ELSE IF includes(url, ".") /\ ~includes(url, " ") THEN Str_https \o url
        ELSE Str_search \o encodeURIComponent(url)

\* main process normalizeUrl
normalizeUrl(raw) ==
    LET url == trim(raw)
    IN  IF url = <<>> THEN <<>>
        ELSE IF startsWith(url, Str_mdbrowse) THEN url
        ELSE IF matchesHttp(url) THEN url
        ELSE IF includes(url, ".") /\ ~includes(url, " ") THEN Str_https \o url
        ELSE Str_search \o encodeURIComponent(url)

\* new URL(url).hostname: the text between "://" and the next "/", "?" or "#",
\* lower-cased
RECURSIVE untilDelim(_)
untilDelim(s) ==
    IF s = <<>> \/ Head(s) \in {"/", "?", "#"} THEN <<>>
    ELSE <<Head(s)>> \o untilDelim(Tail(s))

RECURSIVE afterScheme(_)
afterScheme(s) ==
    IF Len(s) < 3 THEN <<>>
    ELSE IF SubSeq(s, 1, 3) = <<":", "/", "/">> THEN SubSeq(s, 4, Len(s))
    ELSE afterScheme(Tail(s))

hostname(url) == toLowerCase(untilDelim(afterScheme(url)))

----------------------------------------------------------------------------
(* Values *)

NULL == [null |-> TRUE]

START_PAGE_URL == Str_mdbrowse \o <<"s", "t", "a", "r", "t">>
START_PAGE_TITLE == <<"M", "D", "B", "r", "o", "w", "s", "e">>

URL_A == Str_https \o <<"a", ".", "b">>
URL_B == <<"h", "t", "t", "p", ":", "/", "/">> \o <<"c", ".", "d">>
URL_C == Str_https \o <<"c", ".", "d", "/">>

\* what a caller may pass as the url of a navigate request
RawInputs == { <<>>, <<" ">>, START_PAGE_URL, <<" ", "a", ".", "b", " ">>, URL_B }

\* the server: http://c.d redirects to https://c.d/, every other url answers itself
Redirect(url) == IF url = URL_B THEN URL_C ELSE url

\* the urls whose request may also fail
Flaky == {URL_A}

\* urls a rendered view may report having navigated to
ExternalUrls == {URL_A, URL_C}

TabIds == 1..MaxSize

\* a new tab that always takes the first id
EmptyTab_IdOne(id, title) ==
    [id |-> 1, url |-> <<>>, title |-> title, history |-> <<>>, historyIndex |-> -1,
     isLoading |-> FALSE, content |-> NULL]

\* a new tab that is born loading
EmptyTab_Loading(id, title) ==
    [id |-> id, url |-> <<>>, title |-> title, history |-> <<>>, historyIndex |-> -1,
     isLoading |-> TRUE, content |-> NULL]

\* a Tab as created by createTab, closeTab and at startup
EmptyTab(id, title) ==
    [id |-> id, url |-> <<>>, title |-> title, history |-> <<>>, historyIndex |-> -1,
     isLoading |-> FALSE, content |-> NULL]

\* no function of the pipeline is called on its own

\* let settings: the defaults (allowJavascript only reaches the views)
DefaultSettings == [sendAcceptMd |-> TRUE, autoConvert |-> TRUE]

\* the server: https://a.b answers in markdown when the Accept header asks for it
\* and in html otherwise, every other url answers in html
ServesMarkdown(url, accept) == url = URL_A /\ accept

\* the server: response.ok, false for https://c.d/ which answers with an error
\* status and a body
ResponseOk(url) == url # URL_C

\* the markdown payload of a response that is not markdown: the html converted by
\* turndown and cleaned up, or the raw html
Payload(html) ==
    IF settings.autoConvert THEN <<"cleanupTurndownOutput(turndown)">> \o html
    ELSE html

\* fetchPage(START_PAGE_URL), under the settings in force
StartContent ==
    IF settings.sendAcceptMd
    THEN [url |-> START_PAGE_URL, title |-> START_PAGE_TITLE,
          markdown |-> <<"START_PAGE_MARKDOWN">>, wasMarkdown |-> TRUE]
    ELSE [url |-> START_PAGE_URL, title |-> START_PAGE_TITLE,
          markdown |-> Payload(<<"START_PAGE_HTML">>), wasMarkdown |-> FALSE]

\* fetchPage, the catch branch: the synthetic error document
ErrorContent(url) ==
    [url |-> url, title |-> ErrorTitle, markdown |-> <<"# Error Loading Page">> \o url,
     wasMarkdown |-> FALSE]

\* fetchPage, a response to a request sent with (accept) or without the markdown
\* Accept header: the url after redirects, the title falling back to the host
\* name, the body the server sent, converted under the settings in force when
\* the response is there.  The status of the response is not looked at.
PageContent(finalUrl, accept) ==
    IF ServesMarkdown(finalUrl, accept)
    THEN [url |-> finalUrl, title |-> hostname(finalUrl),
          markdown |-> <<"markdown of">> \o finalUrl, wasMarkdown |-> TRUE]
    ELSE [url |-> finalUrl, title |-> hostname(finalUrl),
          markdown |-> Payload(<<"html of">> \o finalUrl), wasMarkdown |-> FALSE]

\* the documents a call of fetchPage(url) can resolve to
fetchPage(url, accept) ==
    IF url = START_PAGE_URL THEN {StartContent}
    ELSE {PageContent(Redirect(url), accept)}
         \cup (IF url \in Flaky THEN {ErrorContent(url)} ELSE {})

----------------------------------------------------------------------------
(* Tab lists (shared by both managers) *)

HasTab(ts, id) == \E i \in 1..Len(ts) : ts[i].id = id

\* tabs.findIndex(t => t.id === id), 1-based; 0 when absent
findIndex(ts, id) ==
    IF HasTab(ts, id) THEN CHOOSE i \in 1..Len(ts) : ts[i].id = id ELSE 0

\* a splice that removes two elements
splice_Two(ts, index) == SubSeq(ts, 1, index - 1) \o SubSeq(ts, index + 2, Len(ts))

\* a splice that removes the first element whatever the index
splice_First(ts, index) == Tail(ts)

\* tabs.splice(index, 1)
splice(ts, index) == SubSeq(ts, 1, index - 1) \o SubSeq(ts, index + 1, Len(ts))

\* a clamp that always gives the first index
Min_One(a, b) == 1

Min(a, b) == IF a < b THEN a ELSE b

\* history.slice(0, historyIndex + 1)
slice(history, n) == SubSeq(history, 1, Min(n, Len(history)))

\* a history update that forgets to move the cursor
NavigateHistory_KeepCursor(tab, url) ==
    [tab EXCEPT !.history = IF @ = <<>> \/ @[Len(@)] # url THEN Append(@, url) ELSE @]

\* navigate, after the fetch: truncate the forward entries, append unless the url
\* is already the last entry, move the cursor to the last entry
NavigateHistory(tab, url) ==
    LET h1 == IF tab.historyIndex < Len(tab.history) - 1
              THEN slice(tab.history, tab.historyIndex + 1)
              ELSE tab.history
        h2 == IF h1 = <<>> \/ h1[Len(h1)] # url THEN Append(h1, url) ELSE h1
    IN  [tab EXCEPT !.history = h2, !.historyIndex = Len(h2) - 1]

\* a commit that updates the history for every handler, as navigate does
CommitTab_HistoryOnReplay(tab, op, content) ==
    NavigateHistory([tab EXCEPT !.title = content.title, !.content = content,
                                !.isLoading = FALSE, !.url = content.url], content.url)

\* the code after `await fetchPage(...)` in navigate, goBack, goForward, reload and
\* refetchForViewMode, applied to the Tab object the handler captured
CommitTab(tab, op, content) ==
    LET t1 == [tab EXCEPT !.title = content.title, !.content = content,
                          !.isLoading = FALSE]
        t2 == IF op \in {"navigate", "goBack", "goForward"}
              THEN [t1 EXCEPT !.url = content.url]
              ELSE t1
    IN  IF op = "navigate" THEN NavigateHistory(t2, content.url) ELSE t2

\* the same, in the tab list; a tab closed meanwhile is no longer in the list
Commit(ts, id, op, content) ==
    [i \in 1..Len(ts) |-> IF ts[i].id = id THEN CommitTab(ts[i], op, content) ELSE ts[i]]

RECURSIVE Entries(_)
Entries(ts) == IF ts = <<>> THEN 0 ELSE Len(Head(ts).history) + Entries(Tail(ts))

\* the size of a state with tab list ts, next tab id next and fetches in flight p
Size(ts, next, p) == 2 * (next - 1) + Entries(ts) + 2 * Len(p)

\* the settings of s that are not at their defaults
Changed(s) ==
    (IF s.sendAcceptMd # DefaultSettings.sendAcceptMd THEN 1 ELSE 0)
    + (IF s.autoConvert # DefaultSettings.autoConvert THEN 1 ELSE 0)

FitsWith(s, ts, next, p) == Size(ts, next, p) + Changed(s) <= MaxSize

Fits(ts, next, p) == FitsWith(settings, ts, next, p)

----------------------------------------------------------------------------
(* Main process: what the toolbar is told *)

getNavigationState(ts, act) ==
    IF HasTab(ts, act)
    THEN LET tab == ts[findIndex(ts, act)]
         IN  [canGoBack |-> tab.historyIndex > 0,
              canGoForward |-> tab.historyIndex < Len(tab.history) - 1,
              isLoading |-> tab.isLoading, url |-> tab.url, title |-> tab.title]
    ELSE [canGoBack |-> FALSE, canGoForward |-> FALSE, isLoading |-> FALSE,
          url |-> <<>>, title |-> <<>>]

\* sendNavigationState, as received by the mdbrowse:navState listener
sendNavigationState(st, ts, act) ==
    LET state == getNavigationState(ts, act)
    IN  [st EXCEPT !.canGoBack = state.canGoBack, !.canGoForward = state.canGoForward,
                   !.isLoading = state.isLoading,
                   !.currentUrl = IF state.url # <<>> THEN state.url ELSE @]

\* sendLoadingStarted, as received by the mdbrowse:loadingStarted listener
sendLoadingStarted(st, url) == [st EXCEPT !.isLoading = TRUE, !.currentUrl = url]

\* sendLoadingFinished, as received by the mdbrowse:loadingFinished listener
sendLoadingFinished(st) == [st EXCEPT !.isLoading = FALSE]

\* sendContentToWebview, as received by handleContentReceived
sendContentToWebview(st, content) ==
    [st EXCEPT !.currentUrl = content.url, !.isLoading = FALSE]

\* sendClearContent, as received by the mdbrowse:clearContent listener
sendClearContent(st) ==
    IF st.isLoading \/ (st.currentUrl # <<>> /\ st.currentUrl # START_PAGE_URL)
    THEN st
    ELSE [st EXCEPT !.currentUrl = START_PAGE_URL]

\* the four sends every handler makes after committing a document
SendCommitted(st, ts, act, content) ==
    sendLoadingFinished(sendNavigationState(sendContentToWebview(st, content), ts, act))

----------------------------------------------------------------------------
(* Fetches in flight *)

\* A fetch in flight is [tab, op, url, accept, via, by]: the tab object the handler
\* captured, the handler, the url it fetches, whether the request was sent with the
\* markdown Accept header (settings.sendAcceptMd when the fetch was issued), and
\* two history fields the code does
\* not keep: the toolbar function that made the request when that is
\* reloadCurrentPage, and, once a later request on the same tab has superseded the
\* fetch, the handler of that request.
NotSuperseded == "none"

Direct == "none"

Supersede(id, op) ==
    [i \in 1..Len(pending) |->
        IF pending[i].tab = id THEN [pending[i] EXCEPT !.by = op] ELSE pending[i]]

Remove(seq, i) == SubSeq(seq, 1, i - 1) \o SubSeq(seq, i + 1, Len(seq))

\* fetchPage(START_PAGE_URL) has no await inside: the handler's continuation runs
\* before any other handler
Immediate(url) == url = START_PAGE_URL

\* `await fetchPage(url)` in a main-process handler that has brought the tab list
\* to ts and the toolbar store to st
MainFetch(ts, act, st, id, op, url, via) ==
    IF Immediate(url)
    THEN LET ts2 == Commit(ts, id, op, StartContent)
         IN  /\ Fits(ts2, nextTabId', pending)
             /\ tabs' = ts2
             /\ appStore' = SendCommitted(st, ts2, act, StartContent)
             /\ pending' = Supersede(id, op)
    ELSE /\ Fits(ts, nextTabId', Append(pending, NULL))
         /\ tabs' = ts
         /\ appStore' = st
         /\ pending' = Append(Supersede(id, op),
                              [tab |-> id, op |-> op, url |-> url,
                               accept |-> settings.sendAcceptMd, via |-> via,
                               by |-> NotSuperseded])

\* a handler that returns { success: false } without touching anything
Fails == UNCHANGED vars

----------------------------------------------------------------------------
(* Main process: the request handlers *)

SetTab(ts, id, tab) == [i \in 1..Len(ts) |-> IF ts[i].id = id THEN tab ELSE ts[i]]

\* navigate, from its first line to the await
NavigateRequest(url, via) ==
    LET normalizedUrl == normalizeUrl(url)
    IN  IF normalizedUrl = <<>>
        THEN Fails
        ELSE LET found == HasTab(tabs, activeTabId)
                 ts0 == IF found THEN tabs ELSE Append(tabs, EmptyTab(nextTabId, <<>>))
                 id == IF found THEN activeTabId ELSE nextTabId
                 tab == ts0[findIndex(ts0, id)]
                 ts1 == SetTab(ts0, id, [tab EXCEPT !.isLoading = TRUE,
                                                    !.url = normalizedUrl])
                 st1 == sendClearContent(sendLoadingStarted(
                            sendNavigationState(appStore, ts1, id), normalizedUrl))
             IN  /\ activeTabId' = id
                 /\ nextTabId' = IF found THEN nextTabId ELSE nextTabId + 1
                 /\ MainFetch(ts1, id, st1, id, "navigate", normalizedUrl, via)
                 /\ UNCHANGED <<isShim, shimState, settings, refresh, call, result>>

Navigate ==
    /\ ~isShim
    /\ \E url \in RawInputs : NavigateRequest(url, Direct)

\* goBack and goForward: step the cursor by d and replay the entry there
Replay(op, d) ==
    LET tab == tabs[findIndex(tabs, activeTabId)]
        index == tab.historyIndex + d
        url == tab.history[index + 1]
        ts1 == SetTab(tabs, tab.id, [tab EXCEPT !.historyIndex = index,
                                                !.isLoading = TRUE, !.url = url])
        st1 == sendClearContent(sendLoadingStarted(
                   sendNavigationState(appStore, ts1, activeTabId), url))
    IN  /\ UNCHANGED <<isShim, activeTabId, nextTabId, shimState, settings, refresh, call, result>>
        /\ MainFetch(ts1, activeTabId, st1, tab.id, op, url, Direct)

\* a goBack that, with the cursor on the first entry, fetches that entry again
GoBack_RefetchAtStart ==
    /\ ~isShim
    /\ IF ~HasTab(tabs, activeTabId) \/ tabs[findIndex(tabs, activeTabId)].historyIndex < 0
       THEN Fails
       ELSE Replay("goBack",
                   IF tabs[findIndex(tabs, activeTabId)].historyIndex = 0 THEN 0 ELSE -1)

GoBack ==
    /\ ~isShim
    /\ IF ~HasTab(tabs, activeTabId) \/ tabs[findIndex(tabs, activeTabId)].historyIndex <= 0
       THEN Fails
       ELSE Replay("goBack", -1)

\* a goForward that, with the cursor on the last entry, fetches that entry again
GoForward_RefetchAtEnd ==
    /\ ~isShim
    /\ IF \/ ~HasTab(tabs, activeTabId)
          \/ tabs[findIndex(tabs, activeTabId)].history = <<>>
       THEN Fails
       ELSE LET tab == tabs[findIndex(tabs, activeTabId)]
            IN  Replay("goForward",
                       IF tab.historyIndex >= Len(tab.history) - 1 THEN 0 ELSE 1)

GoForward ==
    /\ ~isShim
    /\ IF \/ ~HasTab(tabs, activeTabId)
          \/ LET tab == tabs[findIndex(tabs, activeTabId)]
             IN  tab.historyIndex >= Len(tab.history) - 1
       THEN Fails
       ELSE Replay("goForward", 1)

\* reload and refetchForViewMode, called with the toolbar store at st: fetch
\* tab.url again; only reload clears the view
RefetchFrom(st, op) ==
    LET tab == tabs[findIndex(tabs, activeTabId)]
        ts1 == SetTab(tabs, tab.id, [tab EXCEPT !.isLoading = TRUE])
        st0 == sendLoadingStarted(sendNavigationState(st, ts1, activeTabId), tab.url)
        st1 == IF op = "reload" THEN sendClearContent(st0) ELSE st0
    IN  /\ UNCHANGED <<isShim, activeTabId, nextTabId, shimState, settings, call, result>>
        /\ MainFetch(ts1, activeTabId, st1, tab.id, op, tab.url, Direct)

Refetch(op) == UNCHANGED refresh /\ RefetchFrom(appStore, op)

Reload ==
    /\ ~isShim
    /\ IF ~HasTab(tabs, activeTabId) \/ tabs[findIndex(tabs, activeTabId)].url = <<>>
       THEN Fails
       ELSE Refetch("reload")

RefetchForViewMode ==
    /\ ~isShim
    /\ IF ~HasTab(tabs, activeTabId) \/ tabs[findIndex(tabs, activeTabId)].url = <<>>
       THEN Fails
       ELSE Refetch("refetch")

\* the settings after a click on one of the two toggles of the toolbar
Toggled ==
    { [settings EXCEPT !.sendAcceptMd = ~@], [settings EXCEPT !.autoConvert = ~@] }

\* updateSettings: needsRefresh
needsRefresh(oldSettings, newSettings) ==
    \/ oldSettings.sendAcceptMd # newSettings.sendAcceptMd
    \/ oldSettings.autoConvert # newSettings.autoConvert

\* applySettings up to the answer of the updateSettings request: the handler
\* merges the settings and reports needsRefresh, no tab is touched.  One
\* applySettings is under way at a time.
UpdateSettings ==
    /\ ~isShim
    /\ ~refresh
    /\ \E newSettings \in Toggled :
        /\ FitsWith(newSettings, tabs, nextTabId, pending)
        /\ settings' = newSettings
        /\ refresh' = needsRefresh(settings, newSettings)
    /\ UNCHANGED <<isShim, tabs, activeTabId, nextTabId, shimState, pending, appStore, call, result>>

\* applySettings after the answer: fetchForViewModeSwitch when the store has a
\* current url, which sets the store loading and requests refetchForViewMode
ApplySettingsRefresh ==
    /\ ~isShim
    /\ refresh
    /\ refresh' = FALSE
    /\ IF appStore.currentUrl = <<>>
       THEN UNCHANGED <<isShim, tabs, activeTabId, nextTabId, shimState, pending,
                        appStore, settings, call, result>>
       ELSE IF ~HasTab(tabs, activeTabId) \/ tabs[findIndex(tabs, activeTabId)].url = <<>>
       THEN /\ appStore' = [appStore EXCEPT !.isLoading = TRUE]
            /\ UNCHANGED <<isShim, tabs, activeTabId, nextTabId, shimState, pending,
                           settings, call, result>>
       ELSE RefetchFrom([appStore EXCEPT !.isLoading = TRUE], "refetch")

StopLoading ==
    /\ ~isShim
    /\ IF HasTab(tabs, activeTabId)
       THEN LET tab == tabs[findIndex(tabs, activeTabId)]
                ts1 == SetTab(tabs, tab.id, [tab EXCEPT !.isLoading = FALSE])
            IN  /\ tabs' = ts1
                /\ appStore' = sendNavigationState(appStore, ts1, activeTabId)
       ELSE UNCHANGED <<tabs, appStore>>
    /\ UNCHANGED <<isShim, activeTabId, nextTabId, shimState, pending, settings, refresh, call, result>>

\* createTab; with a url it goes on into navigate
CreateTabWith(url) ==
    LET id == nextTabId
        ts1 == Append(tabs, EmptyTab(id, NewTabTitle))
        st1 == sendClearContent(sendNavigationState(appStore, ts1, id))
        normalizedUrl == normalizeUrl(url)
        ts2 == SetTab(ts1, id, [ts1[Len(ts1)] EXCEPT !.isLoading = TRUE,
                                                     !.url = normalizedUrl])
        st2 == sendClearContent(sendLoadingStarted(
                   sendNavigationState(st1, ts2, id), normalizedUrl))
    IN  /\ activeTabId' = id
        /\ nextTabId' = id + 1
        /\ UNCHANGED <<isShim, shimState, settings, refresh, call, result>>
        /\ IF url = <<>> \/ normalizedUrl = <<>>
           THEN /\ tabs' = ts1
                /\ appStore' = st1
                /\ UNCHANGED pending
           ELSE MainFetch(ts2, id, st2, id, "navigate", normalizedUrl, Direct)

CreateTab ==
    /\ ~isShim
    /\ Fits(tabs, nextTabId + 1, pending)
    /\ \E url \in RawInputs : CreateTabWith(url)

\* closeTab without its check of the index: splice(-1, 1) takes the last tab
CloseTabRequest_NoIndexCheck(tabId) ==
    LET index == findIndex(tabs, tabId)
        ts1 == splice(tabs, IF index = 0 THEN Len(tabs) ELSE index)
        next == ts1[Min(index, Len(ts1))]
        fresh == EmptyTab(nextTabId, NewTabTitle)
    IN  IF FALSE
        THEN Fails
        ELSE /\ UNCHANGED <<isShim, shimState, pending, settings, refresh, call, result>>
             /\ IF activeTabId # tabId
                THEN /\ tabs' = ts1
                     /\ appStore' = sendNavigationState(appStore, ts1, activeTabId)
                     /\ UNCHANGED <<activeTabId, nextTabId>>
                ELSE IF Len(ts1) > 0
                THEN /\ tabs' = ts1
                     /\ activeTabId' = next.id
                     /\ appStore' = sendNavigationState(
                            IF next.content # NULL
                            THEN sendContentToWebview(appStore, next.content)
                            ELSE sendClearContent(appStore), ts1, next.id)
                     /\ UNCHANGED nextTabId
                ELSE /\ Fits(<<fresh>>, nextTabId + 1, pending)
                     /\ tabs' = <<fresh>>
                     /\ activeTabId' = fresh.id
                     /\ nextTabId' = nextTabId + 1
                     /\ appStore' = sendNavigationState(sendClearContent(appStore),
                                                        <<fresh>>, fresh.id)

\* closeTab
CloseTabRequest(tabId) ==
    LET index == findIndex(tabs, tabId)
        ts1 == splice(tabs, index)
        next == ts1[Min(index, Len(ts1))]
        fresh == EmptyTab(nextTabId, NewTabTitle)
    IN  IF index = 0
        THEN Fails
        ELSE /\ UNCHANGED <<isShim, shimState, pending, settings, refresh, call, result>>
             /\ IF activeTabId # tabId
                THEN /\ tabs' = ts1
                     /\ appStore' = sendNavigationState(appStore, ts1, activeTabId)
                     /\ UNCHANGED <<activeTabId, nextTabId>>
                ELSE IF Len(ts1) > 0
                THEN /\ tabs' = ts1
                     /\ activeTabId' = next.id
                     /\ appStore' = sendNavigationState(
                            IF next.content # NULL
                            THEN sendContentToWebview(appStore, next.content)
                            ELSE sendClearContent(appStore), ts1, next.id)
                     /\ UNCHANGED nextTabId
                ELSE /\ Fits(<<fresh>>, nextTabId + 1, pending)
                     /\ tabs' = <<fresh>>
                     /\ activeTabId' = fresh.id
                     /\ nextTabId' = nextTabId + 1
                     /\ appStore' = sendNavigationState(sendClearContent(appStore),
                                                        <<fresh>>, fresh.id)

CloseTab ==
    /\ ~isShim
    /\ \E tabId \in TabIds : CloseTabRequest(tabId)

\* a switchTab that drops the document of the tab it leaves
SwitchTab_DropsDocument ==
    /\ ~isShim
    /\ \E tabId \in TabIds :
        IF ~HasTab(tabs, tabId)
        THEN Fails
        ELSE LET tab == tabs[findIndex(tabs, tabId)]
             IN  /\ activeTabId' = tabId
                 /\ tabs' = [i \in 1..Len(tabs) |->
                                IF tabs[i].id = activeTabId /\ tabId # activeTabId
                                THEN [tabs[i] EXCEPT !.content = NULL] ELSE tabs[i]]
                 /\ appStore' = sendNavigationState(
                        IF tab.content # NULL
                        THEN sendContentToWebview(appStore, tab.content)
                        ELSE sendClearContent(appStore), tabs, tabId)
                 /\ UNCHANGED <<isShim, nextTabId, shimState, pending, settings, refresh, call, result>>

\* switchTab
SwitchTabRequest(tabId) ==
    IF ~HasTab(tabs, tabId)
    THEN Fails
    ELSE LET tab == tabs[findIndex(tabs, tabId)]
         IN  /\ activeTabId' = tabId
             /\ appStore' = sendNavigationState(
                    IF tab.content # NULL
                    THEN sendContentToWebview(appStore, tab.content)
                    ELSE sendClearContent(appStore), tabs, tabId)
             /\ UNCHANGED <<isShim, tabs, nextTabId, shimState, pending, settings, refresh, call, result>>

SwitchTab ==
    /\ ~isShim
    /\ \E tabId \in TabIds : SwitchTabRequest(tabId)

\* a reconciliation that takes every notification for a fresh navigation
Reconcile_AlwaysAppend(tab, url) ==
    LET h1 == slice(tab.history, tab.historyIndex + 1)
    IN  [tab EXCEPT !.history = Append(h1, url), !.historyIndex = Len(h1)]

\* onWebviewNavigated, the history reconciliation
Reconcile(tab, url) ==
    LET h == tab.history
        c == tab.historyIndex
        isCurrent == c >= 0 /\ c < Len(h) /\ h[c + 1] = url
        isBack == c > 0 /\ h[c] = url
        isForward == c < Len(h) - 1 /\ h[c + 2] = url
        h1 == IF c < Len(h) - 1 THEN slice(h, c + 1) ELSE h
    IN  IF isCurrent THEN tab
        ELSE IF isBack THEN [tab EXCEPT !.historyIndex = c - 1]
        ELSE IF isForward THEN [tab EXCEPT !.historyIndex = c + 1]
        ELSE [tab EXCEPT !.history = Append(h1, url), !.historyIndex = Len(h1)]

OnWebviewNavigated ==
    /\ ~isShim
    /\ \E url \in ExternalUrls :
        IF ~HasTab(tabs, activeTabId)
        THEN Fails
        ELSE LET tab == tabs[findIndex(tabs, activeTabId)]
                 t1 == Reconcile([tab EXCEPT !.url = url], url)
                 ts1 == SetTab(tabs, tab.id, [t1 EXCEPT !.title = hostname(url)])
             IN  /\ Fits(ts1, nextTabId, pending)
                 /\ tabs' = ts1
                 /\ appStore' = sendNavigationState(appStore, ts1, activeTabId)
                 /\ UNCHANGED <<isShim, activeTabId, nextTabId, shimState, pending, settings, refresh, call, result>>

\* the toolbar's reloadCurrentPage when the main process is there: a navigate
\* request for the url the toolbar shows
ReloadCurrentPage ==
    /\ ~isShim
    /\ IF appStore.currentUrl = <<>>
       THEN Fails
       ELSE NavigateRequest(appStore.currentUrl, "reloadCurrentPage")

\* the i-th fetch in flight resolves to content and the handler that awaited it
\* runs to its end
CompleteFetch(i, content) ==
    LET f == pending[i]
        ts1 == Commit(tabs, f.tab, f.op, content)
    IN  /\ tabs' = ts1
        /\ appStore' = SendCommitted(appStore, ts1, activeTabId, content)
        /\ pending' = Remove(pending, i)
        /\ UNCHANGED <<isShim, activeTabId, nextTabId, shimState, settings, refresh, call, result>>

Complete ==
    /\ ~isShim
    /\ \E i \in 1..Len(pending) :
        \E content \in fetchPage(pending[i].url, pending[i].accept) :
            CompleteFetch(i, content)

----------------------------------------------------------------------------
(* Browser shim: the toolbar's own tab manager (rpc.ts, the isShim branches).   *)
(* A ShimTab has the fields of a Tab; its stored isActive is always false and   *)
(* is left out.                                                                 *)

\* the toolbar's normalizeUrl
shimNormalizeUrl(input) ==
    LET url == trim(input)
    IN  IF url = <<>> THEN <<>>
        ELSE IF startsWith(url, Str_mdbrowse) THEN url
        ELSE IF \/ startsWith(url, <<"h", "t", "t", "p", ":", "/", "/">>)
                \/ startsWith(url, Str_https)
             THEN url
        ELSE Str_https \o url

\* ensureShimTab: the shim state it leaves; the tab it returns is the active one
ensureShimTab(ss) ==
    LET s1 == IF Len(ss.tabs) = 0
              THEN [tabs |-> <<EmptyTab(ss.nextTabId, NewTabTitle)>>,
                    activeTabId |-> ss.nextTabId, nextTabId |-> ss.nextTabId + 1]
              ELSE ss
    IN  IF HasTab(s1.tabs, s1.activeTabId) THEN s1
        ELSE [s1 EXCEPT !.activeTabId = s1.tabs[1].id]

ShimActive(ss) == ss.tabs[findIndex(ss.tabs, ss.activeTabId)]

\* shimSyncNavigation (shimSyncTabs only copies the tab list to the store)
shimSyncNavigation(st, ss) ==
    LET tab == ShimActive(ensureShimTab(ss))
    IN  [st EXCEPT !.canGoBack = tab.historyIndex > 0,
                   !.canGoForward = tab.historyIndex < Len(tab.history) - 1]

\* shimNavigate, the history update
ShimHistory(tab, url) ==
    LET h == tab.history
        h1 == IF tab.historyIndex < Len(h) - 1 THEN slice(h, tab.historyIndex + 1) ELSE h
    IN  IF h = <<>> \/ h[Len(h)] # url
        THEN [tab EXCEPT !.history = Append(h1, url), !.historyIndex = Len(h1)]
        ELSE tab

\* shimNavigate, after the await
ShimCommitTab(tab, op, content) ==
    LET t1 == [tab EXCEPT !.url = content.url,
                          !.title = IF content.title # <<>> THEN content.title ELSE @,
                          !.isLoading = FALSE, !.content = content]
    IN  IF op = "navigate" THEN ShimHistory(t1, content.url) ELSE t1

ShimCommit(ts, id, op, content) ==
    [i \in 1..Len(ts) |->
        IF ts[i].id = id THEN ShimCommitTab(ts[i], op, content) ELSE ts[i]]

\* shimNavigate after the await, on the store
ShimCommitted(st, ss, content) ==
    shimSyncNavigation([st EXCEPT !.currentUrl = content.url, !.isLoading = FALSE], ss)

\* shimFetchPage has no catch: when the request to /_proxy fails, fetch rejects
\* (NULL) and the rest of shimNavigate never runs
shimFetchPage(url, accept) ==
    IF url = START_PAGE_URL THEN {StartContent}
    ELSE {PageContent(Redirect(url), accept)} \cup (IF url \in Flaky THEN {NULL} ELSE {})

\* shimNavigate(url, updateHistory) from a handler that has brought the shim state
\* to ss0, the store to st0 and shimSettings to settings'
ShimNavigate(ss0, st0, op, url) ==
    LET s1 == ensureShimTab(ss0)
        tab == ShimActive(s1)
        s2 == [s1 EXCEPT !.tabs = SetTab(s1.tabs, tab.id, [tab EXCEPT !.isLoading = TRUE])]
        st1 == shimSyncNavigation([st0 EXCEPT !.isLoading = TRUE, !.currentUrl = url], s2)
        s3 == [s2 EXCEPT !.tabs = ShimCommit(s2.tabs, tab.id, op, StartContent')]
    IN  /\ UNCHANGED <<isShim, tabs, activeTabId, nextTabId, refresh, call, result>>
        /\ IF Immediate(url)
           THEN /\ FitsWith(settings', s3.tabs, s3.nextTabId, pending)
                /\ shimState' = s3
                /\ appStore' = ShimCommitted(st1, s3, StartContent')
                /\ pending' = Supersede(tab.id, op)
           ELSE /\ FitsWith(settings', s2.tabs, s2.nextTabId, Append(pending, NULL))
                /\ shimState' = s2
                /\ appStore' = st1
                /\ pending' = Append(Supersede(tab.id, op),
                                     [tab |-> tab.id, op |-> op, url |-> url,
                                      accept |-> settings'.sendAcceptMd,
                                      via |-> Direct, by |-> NotSuperseded])

\* navigateToUrl
ShimNavigateToUrl ==
    /\ isShim
    /\ \E url \in RawInputs :
        LET normalizedUrl == shimNormalizeUrl(url)
        IN  IF normalizedUrl = <<>> THEN Fails
            ELSE /\ UNCHANGED settings
                 /\ ShimNavigate(shimState, appStore, "navigate", normalizedUrl)

\* reloadCurrentPage and fetchForViewModeSwitch
ShimRefetch(op) ==
    IF appStore.currentUrl = <<>> THEN Fails
    ELSE /\ UNCHANGED settings
         /\ ShimNavigate(shimState, [appStore EXCEPT !.isLoading = TRUE], op,
                         appStore.currentUrl)

ShimReloadCurrentPage == isShim /\ ShimRefetch("reload")

ShimFetchForViewModeSwitch == isShim /\ ShimRefetch("refetch")

\* applySettings under the shim: updateSettings assigns shimSettings and answers
\* at once, fetchForViewModeSwitch follows when the store has a current url
ShimApplySettings ==
    /\ isShim
    /\ \E newSettings \in Toggled :
        /\ FitsWith(newSettings, shimState.tabs, shimState.nextTabId, pending)
        /\ settings' = newSettings
        /\ IF needsRefresh(settings, newSettings) /\ appStore.currentUrl # <<>>
           THEN ShimNavigate(shimState, [appStore EXCEPT !.isLoading = TRUE], "refetch",
                             appStore.currentUrl)
           ELSE UNCHANGED <<isShim, tabs, activeTabId, nextTabId, shimState, pending,
                            appStore, refresh, call, result>>

\* goBack and goForward
ShimReplay(op, d) ==
    LET s1 == ensureShimTab(shimState)
        tab == ShimActive(s1)
        index == tab.historyIndex + d
    IN  IF index < 0 \/ index > Len(tab.history) - 1
        THEN /\ shimState' = s1
             /\ UNCHANGED <<isShim, tabs, activeTabId, nextTabId, pending, appStore, settings, refresh, call, result>>
        ELSE /\ UNCHANGED settings
             /\ ShimNavigate(
                    [s1 EXCEPT !.tabs = SetTab(s1.tabs, tab.id,
                                               [tab EXCEPT !.historyIndex = index])],
                    appStore, op, tab.history[index + 1])

ShimGoBack == isShim /\ ShimReplay("goBack", -1)

ShimGoForward == isShim /\ ShimReplay("goForward", 1)

\* what switchTab and closeTab show for the tab they activate
ShimShow(st, tab) ==
    IF tab.content # NULL THEN [st EXCEPT !.currentUrl = tab.content.url]
    ELSE IF tab.url # <<>> THEN [st EXCEPT !.currentUrl = tab.url]
    ELSE [st EXCEPT !.currentUrl = START_PAGE_URL]

\* createNewTab
ShimCreateNewTab ==
    /\ isShim
    /\ Fits(shimState.tabs, shimState.nextTabId + 1, pending)
    /\ LET id == shimState.nextTabId
           s1 == [tabs |-> Append(shimState.tabs, EmptyTab(id, NewTabTitle)),
                  activeTabId |-> id, nextTabId |-> id + 1]
       IN  /\ shimState' = ensureShimTab(s1)
           /\ appStore' = shimSyncNavigation(
                              [appStore EXCEPT !.currentUrl = START_PAGE_URL], s1)
    /\ UNCHANGED <<isShim, tabs, activeTabId, nextTabId, pending, settings, refresh, call, result>>

\* switchTab
ShimSwitchTab ==
    /\ isShim
    /\ \E tabId \in TabIds :
        IF ~HasTab(shimState.tabs, tabId) THEN Fails
        ELSE LET s1 == [shimState EXCEPT !.activeTabId = tabId]
             IN  /\ shimState' = ensureShimTab(s1)
                 /\ appStore' = shimSyncNavigation(ShimShow(appStore, ShimActive(s1)), s1)
                 /\ UNCHANGED <<isShim, tabs, activeTabId, nextTabId, pending, settings, refresh, call, result>>

\* closeTab
ShimCloseTab ==
    /\ isShim
    /\ \E tabId \in TabIds :
        LET index == findIndex(shimState.tabs, tabId)
            wasActive == shimState.activeTabId = tabId
            ts1 == splice(shimState.tabs, index)
            fresh == EmptyTab(shimState.nextTabId, NewTabTitle)
            next == ts1[Min(index, Len(ts1))]
            s1 == IF Len(ts1) = 0
                  THEN [tabs |-> <<fresh>>, activeTabId |-> fresh.id,
                        nextTabId |-> shimState.nextTabId + 1]
                  ELSE IF wasActive
                  THEN [shimState EXCEPT !.tabs = ts1, !.activeTabId = next.id]
                  ELSE [shimState EXCEPT !.tabs = ts1]
            st1 == IF Len(ts1) = 0 THEN [appStore EXCEPT !.currentUrl = START_PAGE_URL]
                   ELSE IF wasActive THEN ShimShow(appStore, next)
                   ELSE appStore
        IN  IF index = 0 THEN Fails
            ELSE /\ Fits(s1.tabs, s1.nextTabId, pending)
                 /\ shimState' = ensureShimTab(s1)
                 /\ appStore' = shimSyncNavigation(st1, s1)
                 /\ UNCHANGED <<isShim, tabs, activeTabId, nextTabId, pending, settings, refresh, call, result>>

\* notifyWebviewNavigation has no shim step: the views report their navigations
\* through listeners that attachWebviewListeners does not attach under the shim.

\* the i-th shim fetch resolves to content (or rejects) and shimNavigate runs to
\* its end
ShimCompleteFetch(i, content) ==
    LET f == pending[i]
        s1 == [shimState EXCEPT !.tabs = ShimCommit(@, f.tab, f.op, content)]
    IN  /\ pending' = Remove(pending, i)
        /\ UNCHANGED <<isShim, tabs, activeTabId, nextTabId, settings, refresh, call, result>>
        /\ IF content = NULL
           THEN UNCHANGED <<shimState, appStore>>
           ELSE /\ shimState' = ensureShimTab(s1)
                /\ appStore' = ShimCommitted(appStore, s1, content)

ShimComplete ==
    /\ isShim
    /\ \E i \in 1..Len(pending) :
        \E content \in shimFetchPage(pending[i].url, pending[i].accept) :
            ShimCompleteFetch(i, content)

----------------------------------------------------------------------------
(* Specification *)

Init ==
    /\ isShim \in BOOLEAN
    /\ tabs = <<EmptyTab(1, NewTabTitle)>>
    /\ activeTabId = 1
    /\ nextTabId = 2
    /\ shimState = IF isShim
                   THEN ensureShimTab([tabs |-> <<>>, activeTabId |-> 1, nextTabId |-> 1])
                   ELSE [tabs |-> <<>>, activeTabId |-> 1, nextTabId |-> 1]
    /\ pending = <<>>
    /\ appStore = [currentUrl |-> <<>>, isLoading |-> FALSE, canGoBack |-> FALSE,
                   canGoForward |-> FALSE]
    /\ settings = DefaultSettings
    /\ refresh = FALSE
    /\ call = [fn |-> "none"]
    /\ result = <<>>

Next ==
    \/ Navigate
    \/ GoBack
    \/ GoForward
    \/ Reload
    \/ RefetchForViewMode
    \/ UpdateSettings
    \/ ApplySettingsRefresh
    \/ StopLoading
    \/ CreateTab
    \/ CloseTab
    \/ SwitchTab
    \/ OnWebviewNavigated
    \/ ReloadCurrentPage
    \/ Complete
    \/ ShimNavigateToUrl
    \/ ShimReloadCurrentPage
    \/ ShimFetchForViewModeSwitch
    \/ ShimApplySettings
    \/ ShimGoBack
    \/ ShimGoForward
    \/ ShimCreateNewTab
    \/ ShimSwitchTab
    \/ ShimCloseTab
    \/ ShimComplete

Spec == Init /\ [][Next]_vars

----------------------------------------------------------------------------
(* The manager in use *)

\* the tab list and the active tab id of the manager in use
Tabs == IF isShim THEN shimState.tabs ELSE tabs

Active == IF isShim THEN shimState.activeTabId ELSE activeTabId

NextId == IF isShim THEN shimState.nextTabId ELSE nextTabId

\* tabs.find(t => t.id === id), for an id that is in the list
TabOf(ts, id) == ts[findIndex(ts, id)]

\* the documents the manager's fetch of url can resolve to
Results(f) ==
    IF isShim THEN shimFetchPage(f.url, f.accept) ELSE fetchPage(f.url, f.accept)

\* the step in which the i-th fetch in flight resolves to content
CompletesAs(i, content) ==
    IF isShim THEN ShimCompleteFetch(i, content) ELSE CompleteFetch(i, content)

\* no other fetch is in flight for the tab of the i-th one
LastInFlight(i) == \A j \in 1..Len(pending) : j # i => pending[j].tab # pending[i].tab

----------------------------------------------------------------------------
(* Superseded navigations *)

\* C1: when navigate(A) is followed on the same tab by navigate(B) before A's fetch
\* resolves, the tab ends with the url and the document of B: if B's fetch has
\* already completed, the completion of A's fetch leaves the tab's url and document
\* as they are.
C1_SupersededNavigationKeepsNewest ==
    [][\A i \in 1..Len(pending) : \A content \in Results(pending[i]) :
         LET f == pending[i]
         IN  (/\ CompletesAs(i, content)
              /\ f.op = "navigate"
              /\ f.by = "navigate"
              /\ LastInFlight(i)
              /\ HasTab(Tabs, f.tab))
             => /\ TabOf(Tabs', f.tab).url = TabOf(Tabs, f.tab).url
                /\ TabOf(Tabs', f.tab).content = TabOf(Tabs, f.tab).content]_vars

\* C2: the completion of a fetch started by navigate, goBack, goForward, reload or
\* refetchForViewMode, on a tab whose target url a later navigate, goBack or goForward
\* has set, leaves the tab's document, title, history and cursor as they are.
C2_StaleResultDiscarded ==
    [][\A i \in 1..Len(pending) : \A content \in Results(pending[i]) :
         LET f == pending[i]
         IN  (/\ CompletesAs(i, content)
              /\ f.by \in {"navigate", "goBack", "goForward"}
              /\ HasTab(Tabs, f.tab))
             => /\ TabOf(Tabs', f.tab).content = TabOf(Tabs, f.tab).content
                /\ TabOf(Tabs', f.tab).title = TabOf(Tabs, f.tab).title
                /\ TabOf(Tabs', f.tab).history = TabOf(Tabs, f.tab).history
                /\ TabOf(Tabs', f.tab).historyIndex = TabOf(Tabs, f.tab).historyIndex]_vars

----------------------------------------------------------------------------
(* History cursor *)

\* C3: in every reachable state, every tab has -1 <= historyIndex < Len(history)
\* and historyIndex = -1 exactly when its history is empty; the canGoBack and
\* canGoForward reported for the active tab, and those the toolbar holds, are
\* historyIndex > 0 and historyIndex < Len(history) - 1.
C3_HistoryCursorInvariant ==
    /\ \A i \in 1..Len(Tabs) :
        /\ -1 <= Tabs[i].historyIndex
        /\ Tabs[i].historyIndex < Len(Tabs[i].history)
        /\ (Tabs[i].historyIndex = -1) <=> (Tabs[i].history = <<>>)
    /\ HasTab(Tabs, Active)
    /\ LET tab == TabOf(Tabs, Active)
       IN  /\ ~isShim => /\ getNavigationState(tabs, activeTabId).canGoBack
                            = (tab.historyIndex > 0)
                         /\ getNavigationState(tabs, activeTabId).canGoForward
                            = (tab.historyIndex < Len(tab.history) - 1)
           /\ appStore.canGoBack = (tab.historyIndex > 0)
           /\ appStore.canGoForward = (tab.historyIndex < Len(tab.history) - 1)

\* a tab two entries long with the cursor on the first, reported as such
C3_Witness ==
    /\ pending = <<>>
    /\ LET tab == TabOf(Tabs, Active)
       IN  /\ Len(tab.history) = 2
           /\ tab.historyIndex = 0
           /\ appStore.canGoForward
           /\ ~appStore.canGoBack

----------------------------------------------------------------------------
(* Tabs *)

\* C4: in every reachable state there is at least one tab, and the closeTab that
\* removes the only tab leaves exactly one tab, fresh and empty, which is active.
C4_TabsNeverEmpty ==
    /\ [](Len(Tabs) >= 1)
    /\ [][((CloseTab \/ ShimCloseTab) /\ Len(Tabs) = 1 /\ Tabs' # Tabs)
          => /\ Tabs' = <<EmptyTab(NextId, NewTabTitle)>>
             /\ Active' = NextId
             /\ NextId' = NextId + 1]_vars

\* the only tab, which had a page, was closed: one fresh tab with a new id is left
C4_Witness ==
    /\ Tabs = <<EmptyTab(NextId - 1, NewTabTitle)>>
    /\ Active = NextId - 1
    /\ NextId = 3
    /\ \E i \in 1..Len(pending) : pending[i].tab = 1

\* C5: in every reachable state activeTabId is the id of a tab in the tab list.
C5_ActiveTabExists == HasTab(Tabs, Active)

\* the active tab was closed while another tab stayed, and a tab is active
C5_Witness ==
    /\ Len(Tabs) = 1
    /\ NextId = 3
    /\ Tabs[1].history # <<>>
    /\ Active = Tabs[1].id

----------------------------------------------------------------------------
(* goBack, goForward, navigate and reload on the history *)

\* C6: a goBack on a tab whose cursor is 0, or whose history is empty, changes no
\* field of any tab and issues no fetch.
C6_GoBackAtStartIsNoOp ==
    [][((GoBack \/ ShimGoBack) /\ TabOf(Tabs, Active).historyIndex <= 0)
       => /\ Tabs' = Tabs
          /\ pending' = pending]_vars

\* the active tab has its cursor on its first and only entry and nothing is in flight
C6_Witness ==
    /\ pending = <<>>
    /\ TabOf(Tabs, Active).historyIndex = 0
    /\ Len(TabOf(Tabs, Active).history) = 1
    /\ ~TabOf(Tabs, Active).isLoading

\* the history a navigation that resolves to u must leave on a tab
NavigationUpdates(before, after, u) ==
    LET h == before.history
        c == before.historyIndex
        kept == SubSeq(h, 1, c + 1)
    IN  /\ after.history = IF c >= 0 /\ h[c + 1] = u THEN kept ELSE Append(kept, u)
        /\ after.historyIndex = Len(after.history) - 1
        /\ after.history[after.historyIndex + 1] = u

\* C7: a navigation that succeeds with url u on a tab with history h and cursor c
\* leaves the history h[0..c] followed by u (u is not appended when it equals h[c]),
\* the cursor on the last entry, and u at the cursor.
C7_NavigateHistoryUpdate ==
    [][/\ \A i \in 1..Len(pending) : \A content \in Results(pending[i]) :
            LET f == pending[i]
            IN  (/\ content # NULL
                 /\ CompletesAs(i, content)
                 /\ f.op = "navigate"
                 /\ HasTab(Tabs, f.tab))
                => NavigationUpdates(TabOf(Tabs, f.tab), TabOf(Tabs', f.tab), content.url)
       /\ ((Navigate \/ ShimNavigateToUrl) /\ Len(pending') = Len(pending) /\ vars' # vars)
          => NavigationUpdates(TabOf(Tabs, Active), TabOf(Tabs', Active), START_PAGE_URL)
      ]_vars

\* C8: in every reachable state no tab's history has two equal adjacent entries.
C8_NoDuplicateConsecutive ==
    \A i \in 1..Len(Tabs) :
        \A k \in 1..(Len(Tabs[i].history) - 1) :
            Tabs[i].history[k] # Tabs[i].history[k + 1]

SameHistory(before, after) ==
    /\ after.history = before.history
    /\ after.historyIndex = before.historyIndex

\* C9: a reload, through the reload request or through the toolbar's
\* reloadCurrentPage, leaves the history and the cursor of every tab as they were,
\* when it is issued and when its fetch completes.
C9_ReloadKeepsHistory ==
    [][/\ (Reload \/ ReloadCurrentPage \/ ShimReloadCurrentPage)
          => /\ Len(Tabs') = Len(Tabs)
             /\ \A k \in 1..Len(Tabs) : SameHistory(Tabs[k], Tabs'[k])
       /\ \A i \in 1..Len(pending) : \A content \in Results(pending[i]) :
            LET f == pending[i]
            IN  (/\ CompletesAs(i, content)
                 /\ (f.op = "reload" \/ f.via = "reloadCurrentPage")
                 /\ HasTab(Tabs, f.tab))
                => SameHistory(TabOf(Tabs, f.tab), TabOf(Tabs', f.tab))
      ]_vars

\* C10: a goBack (goForward) with the cursor off the boundary moves the cursor by
\* exactly one, fetches the history entry at the new cursor and leaves the history
\* as it is; the completion of that fetch leaves the history and the cursor as they
\* are, whatever it resolves to.
C10_GoBackGoForwardReplay ==
    [][/\ \A d \in {-1, 1} :
            LET tab == TabOf(Tabs, Active)
                op == IF d = -1 THEN "goBack" ELSE "goForward"
                url == tab.history[tab.historyIndex + d + 1]
            IN  (/\ IF d = -1
                    THEN tab.historyIndex > 0 /\ (GoBack \/ ShimGoBack)
                    ELSE tab.historyIndex < Len(tab.history) - 1
                         /\ (GoForward \/ ShimGoForward))
                => /\ TabOf(Tabs', tab.id).historyIndex = tab.historyIndex + d
                   /\ TabOf(Tabs', tab.id).history = tab.history
                   /\ IF Immediate(url)
                      THEN /\ Len(pending') = Len(pending)
                           /\ TabOf(Tabs', tab.id).content = StartContent
                      ELSE /\ Len(pending') = Len(pending) + 1
                           /\ pending'[Len(pending')] =
                                [tab |-> tab.id, op |-> op, url |-> url,
                                 accept |-> settings.sendAcceptMd, via |-> Direct,
                                 by |-> NotSuperseded]
       /\ \A i \in 1..Len(pending) : \A content \in Results(pending[i]) :
            LET f == pending[i]
            IN  (/\ CompletesAs(i, content)
                 /\ f.op \in {"goBack", "goForward"}
                 /\ HasTab(Tabs, f.tab))
                => SameHistory(TabOf(Tabs, f.tab), TabOf(Tabs', f.tab))
      ]_vars

\* a goBack whose fetch resolved left the cursor on the first of two entries, with
\* the document of that entry shown
C10_Witness ==
    /\ pending = <<>>
    /\ LET tab == TabOf(Tabs, Active)
       IN  /\ tab.history = <<URL_A, URL_C>>
           /\ tab.historyIndex = 0
           /\ tab.content = PageContent(URL_A, TRUE)

----------------------------------------------------------------------------
(* External navigations *)

\* what a notification of url u must do to the history of the tab it is about
Reconciled(before, after, u) ==
    LET h == before.history
        c == before.historyIndex
    IN  IF c >= 0 /\ h[c + 1] = u
        THEN SameHistory(before, after)
        ELSE IF c > 0 /\ h[c] = u
        THEN after.history = h /\ after.historyIndex = c - 1
        ELSE IF c < Len(h) - 1 /\ h[c + 2] = u
        THEN after.history = h /\ after.historyIndex = c + 1
        ELSE /\ after.history = Append(SubSeq(h, 1, c + 1), u)
             /\ after.historyIndex = Len(after.history) - 1

\* C11: a notification that the view navigated to u, on a tab with history h and
\* cursor c, leaves history and cursor alone when u = h[c]; else moves the cursor
\* to c-1 when u = h[c-1]; else to c+1 when u = h[c+1]; else leaves the history
\* h[0..c] followed by u with the cursor on u.  It issues no fetch.
C11_ExternalNavigationReconciled ==
    [][\A u \in ExternalUrls :
         (OnWebviewNavigated /\ TabOf(tabs', activeTabId).url = u)
         => /\ Reconciled(TabOf(tabs, activeTabId), TabOf(tabs', activeTabId), u)
            /\ pending' = pending
            /\ \A k \in 1..Len(tabs) :
                 tabs[k].id # activeTabId => tabs'[k] = tabs[k]]_vars

\* the view went back from the second entry to the first: the cursor followed,
\* the document is still the one fetched for the second entry
C11_Witness ==
    /\ ~isShim
    /\ pending = <<>>
    /\ LET tab == TabOf(tabs, activeTabId)
       IN  /\ tab.history = <<URL_A, URL_C>>
           /\ tab.historyIndex = 0
           /\ tab.url = URL_A
           /\ tab.content = PageContent(URL_C, TRUE)

----------------------------------------------------------------------------
(* Termination of navigations *)

\* C12: every navigation attempt terminates.  When the fetch of a navigate, goBack,
\* goForward, reload or settings refetch returns or fails, and no other fetch is
\* in flight for its tab, the tab (if it is still open) is left with isLoading
\* false and holding a document, a real one or the synthetic error document: a
\* fetch failure never leaves the tab loading.
C12_NavigationTerminates ==
    [][\A i \in 1..Len(pending) : \A content \in Results(pending[i]) :
         (CompletesAs(i, content) /\ LastInFlight(i) /\ HasTab(Tabs, pending[i].tab))
         => LET tab == TabOf(Tabs', pending[i].tab)
            IN  ~tab.isLoading /\ tab.content # NULL]_vars

----------------------------------------------------------------------------
(* Network errors *)

\* the fetch f ends in a network error: the request fails, or the response has a
\* non-success status
NetworkError(f, content) ==
    \/ content \in {NULL, ErrorContent(f.url)}
    \/ f.url # START_PAGE_URL /\ ~ResponseOk(Redirect(f.url))

\* C13: a network error, that is a request that fails or a response with a
\* non-success status, is turned into the synthetic error document (its body
\* renders the failure, wasMarkdown is false): when a fetch ends in a network
\* error, its tab, if still open, holds the error document afterwards, never a
\* document processed as a normal one and never nothing.
C13_NetworkErrorBecomesErrorDocument ==
    [][\A i \in 1..Len(pending) : \A content \in Results(pending[i]) :
         (/\ CompletesAs(i, content)
          /\ NetworkError(pending[i], content)
          /\ HasTab(Tabs, pending[i].tab))
         => TabOf(Tabs', pending[i].tab).content = ErrorContent(pending[i].url)]_vars

----------------------------------------------------------------------------
(* Invalid urls *)

\* C14: a navigate request whose target fails normalization (nothing is left of
\* it once trimmed) is rejected before any mutation: no fetch is issued, nothing
\* is sent to the toolbar, and every tab and activeTabId stay as they were.
C14_InvalidUrlRejected ==
    [][\A url \in RawInputs :
         (~isShim /\ trim(url) = <<>> /\ NavigateRequest(url, Direct))
         => UNCHANGED <<tabs, activeTabId, nextTabId, pending, appStore>>]_vars

\* a navigate request with a blank target can arrive while the active tab has a
\* history and a fetch in flight
C14_Witness ==
    /\ ~isShim
    /\ \E url \in RawInputs : trim(url) = <<>> /\ url # <<>> /\ normalizeUrl(url) = <<>>
    /\ HasTab(tabs, activeTabId)
    /\ TabOf(tabs, activeTabId).isLoading
    /\ TabOf(tabs, activeTabId).history # <<>>
    /\ pending # <<>>

----------------------------------------------------------------------------
(* Tabs *)

\* C15: closeTab of the active tab, when other tabs survive, makes active the tab
\* that now sits at the closed tab's former index, or the last tab when the closed
\* one was the last; closeTab of a tab that is not active leaves activeTabId as it
\* was.
C15_CloseTabActivation ==
    [][\A tabId \in TabIds :
         (/\ CloseTab \/ ShimCloseTab
          /\ HasTab(Tabs, tabId)
          /\ ~HasTab(Tabs', tabId)
          /\ Len(Tabs) > 1)
         => LET index == findIndex(Tabs, tabId)
            IN  IF Active # tabId THEN Active' = Active
                ELSE IF index <= Len(Tabs') THEN Active' = Tabs'[index].id
                ELSE Active' = Tabs'[Len(Tabs')].id]_vars

\* of three tabs the second one has been closed and the third one is active
C15_Witness ==
    /\ Len(Tabs) = 2
    /\ NextId = 4
    /\ Tabs[1].id = 1
    /\ Tabs[2].id = 3
    /\ Active = 3

\* C16: switchTab changes only activeTabId: the tabs in the list, and the url,
\* title, isLoading, history, cursor and document of each of them, are the same
\* before and after the call; no tab id is handed out and no fetch is issued.
C16_SwitchTabFrame ==
    [][(SwitchTab \/ ShimSwitchTab)
       => Tabs' = Tabs /\ NextId' = NextId /\ pending' = pending]_vars

\* the first of two tabs holds a document and has been made active again
C16_Witness ==
    /\ Len(Tabs) = 2
    /\ NextId = 3
    /\ Active = Tabs[1].id
    /\ Tabs[1].content # NULL

\* a createTab step has added exactly one tab, which is the active one, and has
\* left the tabs that were there as they were
OneTabAdded ==
    /\ Len(Tabs') = Len(Tabs) + 1
    /\ SubSeq(Tabs', 1, Len(Tabs)) = Tabs
    /\ Active' = Tabs'[Len(Tabs')].id

\* the empty state: no url, empty history, cursor -1, no document, not loading
IsEmptyTab(tab) ==
    /\ tab.url = <<>>
    /\ tab.history = <<>>
    /\ tab.historyIndex = -1
    /\ tab.content = NULL
    /\ ~tab.isLoading

UniqueIds ==
    /\ \A i, j \in 1..Len(Tabs) : Tabs[i].id = Tabs[j].id => i = j
    /\ \A i \in 1..Len(Tabs) : Tabs[i].id < NextId

\* the ids of the tabs of list ts
IdsOf(ts) == { ts[i].id : i \in 1..Len(ts) }

\* C18: tab ids are unique and monotonically assigned.  At every moment the tabs
\* have pairwise distinct ids; a tab that appears (by createTab, by closing the
\* last tab, at startup) has an id that is at least the next id to hand out at
\* that time, hence greater than every id handed out before, and the next id to
\* hand out never goes down, so the id of a closed tab is never given again.
C18_TabIdsUniqueMonotonic ==
    /\ []UniqueIds
    /\ [][/\ NextId' >= NextId
          /\ \A id \in IdsOf(Tabs') \ IdsOf(Tabs) : id >= NextId /\ id < NextId']_vars

\* after two tabs have been closed the only tab has the third id
C18_Witness ==
    /\ Len(Tabs) = 1
    /\ Tabs[1].id = 3
    /\ NextId = 4

----------------------------------------------------------------------------
(* Settings *)

\* the step re-fetches the url of tab `before`: a fetch of that url for that tab is
\* issued by the refetch handler under the new settings (the start page is there
\* at once), and the history and the cursor stay as they were
Refetched(before, after) ==
    /\ SameHistory(before, after)
    /\ IF Immediate(before.url)
       THEN after.content = StartContent'
       ELSE /\ Len(pending') = Len(pending) + 1
            /\ LET f == pending'[Len(pending')]
               IN  /\ f.tab = before.id
                   /\ f.url = before.url
                   /\ f.op = "refetch"
                   /\ f.accept = settings'.sendAcceptMd

\* C19: a settings update that toggles sendAcceptMd or autoConvert leads to a
\* re-fetch of the active tab's current url whenever that tab has one, and the
\* re-fetch leaves the tab's history and cursor unchanged: the update is followed
\* by the refresh, the refresh fetches the url of the active tab again, and
\* neither the refresh nor the arrival of its result touches history or cursor.
C19_SettingsChangeRefetches ==
    [][/\ UpdateSettings => refresh'
       /\ ((ApplySettingsRefresh \/ ShimApplySettings)
            /\ HasTab(Tabs, Active) /\ TabOf(Tabs, Active).url # <<>>)
          => Refetched(TabOf(Tabs, Active), TabOf(Tabs', Active))
       /\ \A i \in 1..Len(pending) : \A content \in Results(pending[i]) :
            (/\ CompletesAs(i, content)
             /\ pending[i].op = "refetch"
             /\ HasTab(Tabs, pending[i].tab))
            => SameHistory(TabOf(Tabs, pending[i].tab), TabOf(Tabs', pending[i].tab))]_vars

\* document d is what the settings in force derive for its url (the error
\* document does not depend on the settings)
Fresh(d) ==
    \/ d = NULL
    \/ d.title = ErrorTitle
    \/ d.url = START_PAGE_URL /\ d = StartContent
    \/ d.url # START_PAGE_URL /\ d = PageContent(d.url, settings.sendAcceptMd)

\* C20: changing a fetch-affecting setting invalidates the cached documents: once
\* the refresh that follows the change is over and no fetch is in flight, no tab,
\* active or not, still holds a document derived under the previous settings and
\* differing from what the settings in force derive, and switchTab never displays
\* such a document.
C20_NoStaleDocuments ==
    /\ []((~refresh /\ pending = <<>>)
          => \A i \in 1..Len(Tabs) : Fresh(Tabs[i].content))
    /\ [][((SwitchTab \/ ShimSwitchTab) /\ Active' # Active /\ ~refresh)
          => Fresh(TabOf(Tabs, Active').content)]_vars

----------------------------------------------------------------------------
(* The converter: cleanupTurndownOutput.  The repository holds three copies of    *)
(* the converter: the shared module (src/shared/turndown.ts, used by the tests),  *)
(* the main process (src/bun/index.ts) and the browser shim (rpc.ts).  The main   *)
(* process and the shim copies are the ones fetchPage and shimFetchPage call.     *)

Sites == {"shared", "main", "shim"}


\* the first index i >= from with s[i] = ch, 0 when there is none
firstIndex(s, ch, from) ==
    LET hits == {i \in from..Len(s) : s[i] = ch}
    IN  IF hits = {} THEN 0 ELSE CHOOSE i \in hits : \A j \in hits : i <= j

\* the first index i >= from with s[i] outside set, Len(s) + 1 when there is none
firstOutside(s, set, from) ==
    LET hits == {i \in from..Len(s) : s[i] \notin set}
    IN  IF hits = {} THEN Len(s) + 1 ELSE CHOOSE i \in hits : \A j \in hits : i <= j

\* s has p at index i
startsWithAt(s, p, i) ==
    i >= 1 /\ i + Len(p) - 1 <= Len(s) /\ SubSeq(s, i, i + Len(p) - 1) = p

Whitespace == {" ", "\t", "\n"}

\* value.replace(/\s+/g, " ")
RECURSIVE collapseWhitespace(_)
collapseWhitespace(s) ==
    IF s = <<>> THEN <<>>
    ELSE IF IsSpace(Head(s)) THEN <<" ">> \o collapseWhitespace(trimStart(s))
    ELSE <<Head(s)>> \o collapseWhitespace(Tail(s))

\* normalizeWhitespace (the main process and the shim write it out in place)
normalizeWhitespace(value) == trim(collapseWhitespace(value))

\* /\[([^\]]*)\]\(([^)]+)\)/ tried at index i: the label runs to the first "]",
\* which "(" must follow, the url runs to the first ")" and is not empty
LinkAt(s, i) ==
    LET j == firstIndex(s, "]", i + 1)
        k == firstIndex(s, ")", j + 2)
    IN  IF /\ i <= Len(s) /\ s[i] = "["
           /\ j # 0 /\ j < Len(s) /\ s[j + 1] = "("
           /\ k > j + 2
        THEN [found |-> TRUE, text |-> SubSeq(s, i + 1, j - 1),
              url |-> SubSeq(s, j + 2, k - 1), last |-> k]
        ELSE [found |-> FALSE]

\* the replacement of one link
rewriteLink(site, text, url) ==
    IF site = "shared"
    THEN LET cleaned == normalizeWhitespace(text)
             normalizedUrl == IF startsWith(url, <<"/", "/">>)
                              THEN <<"h", "t", "t", "p", "s", ":">> \o url
                              ELSE url
             label == IF cleaned # <<>> THEN cleaned ELSE normalizedUrl
         IN  IF label # <<>>
             THEN <<"[">> \o label \o <<"]", "(">> \o normalizedUrl \o <<")">>
             ELSE <<>>
    ELSE LET cleaned == trim(collapseWhitespace(text))
         IN  IF cleaned = <<>> THEN <<>>
             ELSE <<"[">> \o cleaned \o <<"]", "(">> \o url \o <<")">>

\* markdown.replace(/\[([^\]]*)\]\(([^)]+)\)/g, ...), from index i on
RECURSIVE replaceLinks(_, _, _)
replaceLinks(site, s, i) ==
    IF i > Len(s) THEN <<>>
    ELSE LET m == LinkAt(s, i)
         IN  IF m.found
             THEN rewriteLink(site, m.text, m.url) \o replaceLinks(site, s, m.last + 1)
             ELSE <<s[i]>> \o replaceLinks(site, s, i + 1)

\* /\[[^\]]*\]\(data:[^)]+\)/ tried at index i: the index of its last character,
\* 0 when it does not match
DataLinkAt(s, i) ==
    LET j == firstIndex(s, "]", i + 1)
        k == firstIndex(s, ")", j + 7)
    IN  IF /\ i <= Len(s) /\ s[i] = "["
           /\ j # 0 /\ startsWithAt(s, <<"(", "d", "a", "t", "a", ":">>, j + 1)
           /\ k > j + 7
        THEN k
        ELSE 0

\* markdown.replace(/!\[[^\]]*\]\(data:[^)]+\)/g, ""), from index i on
RECURSIVE removeDataImages(_, _)
removeDataImages(s, i) ==
    IF i > Len(s) THEN <<>>
    ELSE LET k == IF s[i] = "!" THEN DataLinkAt(s, i + 1) ELSE 0
         IN  IF k # 0 THEN removeDataImages(s, k + 1)
             ELSE <<s[i]>> \o removeDataImages(s, i + 1)

\* markdown.replace(/\[[^\]]*\]\(data:[^)]+\)/g, ""), from index i on
RECURSIVE removeDataLinks(_, _)
removeDataLinks(s, i) ==
    IF i > Len(s) THEN <<>>
    ELSE LET k == DataLinkAt(s, i)
         IN  IF k # 0 THEN removeDataLinks(s, k + 1)
             ELSE <<s[i]>> \o removeDataLinks(s, i + 1)

\* the last index i in from..to with s[i] = ch, 0 when there is none
lastIndex(s, ch, from, to) ==
    LET hits == {i \in from..to : s[i] = ch}
    IN  IF hits = {} THEN 0 ELSE CHOOSE i \in hits : \A j \in hits : i >= j

\* /^\d+\.\s*$/m tried at index i: the index of its last character, 0 when it
\* does not match.  The white space after the dot is taken as far as it goes; when
\* that is not the end of the text it is given back to the last line end in it.
MarkerAt(s, i) ==
    LET d == firstOutside(s, {"0", "1", "2", "3", "4", "5", "6", "7", "8", "9"}, i)
        e == firstOutside(s, Whitespace, d + 1)
        n == lastIndex(s, "\n", d + 1, e - 1)
    IN  IF /\ i = 1 \/ s[i - 1] = "\n"
           /\ d > i /\ d <= Len(s) /\ s[d] = "."
        THEN IF e = Len(s) + 1 THEN Len(s)
             ELSE IF n # 0 THEN n - 1
             ELSE 0
        ELSE 0

\* markdown.replace(/^\d+\.\s*$/gm, ""), from index i on
RECURSIVE removeOrphanMarkers(_, _)
removeOrphanMarkers(s, i) ==
    IF i > Len(s) THEN <<>>
    ELSE LET k == MarkerAt(s, i)
         IN  IF k # 0 THEN removeOrphanMarkers(s, k + 1)
             ELSE <<s[i]>> \o removeOrphanMarkers(s, i + 1)

\* markdown.replace(/\n{3,}/g, "\n\n")
RECURSIVE collapseNewlines(_)
collapseNewlines(s) ==
    IF s = <<>> THEN <<>>
    ELSE IF Head(s) = "\n"
    THEN LET e == firstOutside(s, {"\n"}, 1)
         IN  (IF e > 3 THEN <<"\n", "\n">> ELSE SubSeq(s, 1, e - 1))
             \o collapseNewlines(SubSeq(s, e, Len(s)))
    ELSE <<Head(s)>> \o collapseNewlines(Tail(s))

\* cleanupTurndownOutput, as the converter of the site has it
cleanupTurndownOutput(site, markdown) ==
    LET links == replaceLinks(site, markdown, 1)
        kept == IF site = "shared"
                THEN removeDataLinks(removeDataImages(links, 1), 1)
                ELSE links
    IN  trim(collapseNewlines(removeOrphanMarkers(kept, 1)))

----------------------------------------------------------------------------
(* The functions of the document pipeline, called on their own.  A call is drawn  *)
(* at the start; its step applies the function; the normalizer is applied a       *)
(* second time to its own output.                                                 *)

\* the texts handed to cleanupTurndownOutput are made of at most MaxFragments
\* pieces of markdown
MaxFragments == 3

RECURSIVE Texts(_)
Texts(n) ==
    LET fragments ==
            { <<"[">>,
              <<"[", "a", "]">>,
              <<"[", " ", "a", "\n">>,
              <<"]", "(", "u", ")">>,
              <<"(", "/", "/", "u", ")">>,
              <<"]", "(", "/", "/", "u", ")">>,
              <<"(", "d", "a", "t", "a", ":", "z", ")">>,
              <<"!", "[", "i", "]", "(", "d", "a", "t", "a", ":", "x", ")">>,
              <<"[", "b", "]", "(", "d", "a", "t", "a", ":", "x", ")">>,
              <<" ">>,
              <<"\n">>,
              <<"1", ".">> }
    IN  IF n = 0 THEN {<<>>}
        ELSE Texts(n - 1) \cup {t \o f : t \in Texts(n - 1), f \in fragments}

\* C24: cleanupTurndownOutput is idempotent: applied to its own output it
\* returns that output unchanged, whatever the text was
C24_CleanupIdempotent ==
    (call.fn = "cleanupTurndownOutput" /\ Len(result) = 2) => result[2] = result[1]

\* String.prototype.includes
includesText(s, p) == \E i \in 1..Len(s) : startsWithAt(s, p, i)

\* the call was a call of the shared module's cleanupTurndownOutput and has
\* returned
SharedCleanupDone ==
    call.fn = "cleanupTurndownOutput" /\ call.site = "shared" /\ Len(result) >= 1

\* C25: protocol-relative urls are normalized: what cleanupTurndownOutput returns
\* contains no link of the form [label](//...)
C25_NoProtocolRelativeLink ==
    SharedCleanupDone => ~includesText(result[1], <<"]", "(", "/", "/">>)

\* C30: what cleanupTurndownOutput returns contains no link and no image link
\* whose url starts with data:, whatever the text was
C30_NoDataUriLink ==
    SharedCleanupDone => \A i \in 1..Len(result[1]) : DataLinkAt(result[1], i) = 0

\* a label on one line: not empty, no white space at its ends, no line end or
\* tab in it and no two spaces in a row
IsCleanLabel(l) ==
    /\ l # <<>>
    /\ l[1] \notin Whitespace /\ l[Len(l)] \notin Whitespace
    /\ \A i \in 1..Len(l) : l[i] \notin {"\n", "\t"}
    /\ \A i \in 1..(Len(l) - 1) : ~(l[i] = " " /\ l[i + 1] = " ")

\* the labels of the links of s from index i on, found as matchAll finds them
RECURSIVE LinkLabels(_, _)
LinkLabels(s, i) ==
    IF i > Len(s) THEN {}
    ELSE LET m == LinkAt(s, i)
         IN  IF m.found THEN {m.text} \cup LinkLabels(s, m.last + 1)
             ELSE LinkLabels(s, i + 1)

\* C26: link labels are on one line: every [label](url) in what
\* cleanupTurndownOutput returns has its white space collapsed to single spaces
\* and none at its ends, and a label that would be empty is the url instead
C26_LinkLabelsSingleLine ==
    SharedCleanupDone => \A l \in LinkLabels(result[1], 1) : IsCleanLabel(l)

----------------------------------------------------------------------------
(* The converter: markup.  An element is [nodeName, attributes, childNodes], its   *)
(* attributes a sequence of <<name, value>> in the order written; a text node is  *)
(* [nodeName |-> "#text", data].  The markup texts are lower case, so the i flag  *)
(* of the patterns that read them changes nothing.                                 *)

Text(data) == [nodeName |-> "#text", data |-> data]

Element(name, attributes, childNodes) ==
    [nodeName |-> name, attributes |-> attributes, childNodes |-> childNodes]

\* the characters of a tag or attribute name
Chars(name) ==
    CASE name = "A" -> <<"a">>
      [] name = "IMG" -> <<"i", "m", "g">>
      [] name = "NAV" -> <<"n", "a", "v">>
      [] name = "TABLE" -> <<"t", "a", "b", "l", "e">>
      [] name = "TR" -> <<"t", "r">>
      [] name = "TD" -> <<"t", "d">>
      [] name = "TH" -> <<"t", "h">>
      [] name = "href" -> <<"h", "r", "e", "f">>
      [] name = "aria-label" -> <<"a", "r", "i", "a", "-", "l", "a", "b", "e", "l">>
      [] name = "title" -> <<"t", "i", "t", "l", "e">>
      [] name = "alt" -> <<"a", "l", "t">>
      [] name = "src" -> <<"s", "r", "c">>

\* elements without content and without an end tag
VoidElements == {"IMG"}

\* the markup of a sequence of nodes: outerHTML of each, in order
RECURSIVE outerHTML(_)
outerHTML(nodes) ==
    LET RECURSIVE attributesHTML(_)
        attributesHTML(attributes) ==
            IF attributes = <<>> THEN <<>>
            ELSE <<" ">> \o Chars(Head(attributes)[1])
                 \o <<"=", "\"">> \o Head(attributes)[2] \o <<"\"">>
                 \o attributesHTML(Tail(attributes))
    IN  IF nodes = <<>> THEN <<>>
        ELSE LET node == Head(nodes)
             IN  (IF node.nodeName = "#text" THEN node.data
                  ELSE <<"<">> \o Chars(node.nodeName)
                       \o attributesHTML(node.attributes) \o <<">">>
                       \o (IF node.nodeName \in VoidElements THEN <<>>
                           ELSE outerHTML(node.childNodes)
                                \o <<"<", "/">> \o Chars(node.nodeName) \o <<">">>))
                 \o outerHTML(Tail(nodes))

\* node.getAttribute(name) !== null
hasAttribute(node, name) ==
    \E i \in 1..Len(node.attributes) : node.attributes[i][1] = name

\* String(node.getAttribute(name) ?? ""), and node.getAttribute(name) || ""
getAttribute(node, name) ==
    IF hasAttribute(node, name)
    THEN LET i == CHOOSE i \in 1..Len(node.attributes) :
                      /\ node.attributes[i][1] = name
                      /\ \A j \in 1..(i - 1) : node.attributes[j][1] # name
         IN  node.attributes[i][2]
    ELSE <<>>

\* node.textContent of each node of a sequence, joined
RECURSIVE textContent(_)
textContent(nodes) ==
    IF nodes = <<>> THEN <<>>
    ELSE LET node == Head(nodes)
         IN  (IF node.nodeName = "#text" THEN node.data
              ELSE textContent(node.childNodes))
             \o textContent(Tail(nodes))

\* the elements below the nodes of a sequence, in document order
RECURSIVE descendants(_)
descendants(nodes) ==
    IF nodes = <<>> THEN <<>>
    ELSE LET node == Head(nodes)
         IN  (IF node.nodeName = "#text" THEN <<>>
              ELSE <<node>> \o descendants(node.childNodes))
             \o descendants(Tail(nodes))

\* node.querySelectorAll(selector), for a tag name, and for "img[alt]"
querySelectorAll(node, selector) ==
    LET below == descendants(node.childNodes)
    IN  IF selector = "img[alt]"
        THEN SelectSeq(below, LAMBDA n : n.nodeName = "IMG" /\ hasAttribute(n, "alt"))
        ELSE SelectSeq(below, LAMBDA n : n.nodeName = selector)

----------------------------------------------------------------------------
(* The converter: the rules.  The rules the repository adds are taken from its    *)
(* three copies; the rules of the engine (turndown 7) and of its table extension  *)
(* (turndown-plugin-gfm) are the ones a node falls to when no added rule takes it. *)

\* getLinkLabel
getLinkLabel(node) ==
    LET text == normalizeWhitespace(textContent(<<node>>))
        ariaLabel == normalizeWhitespace(getAttribute(node, "aria-label"))
        title == normalizeWhitespace(getAttribute(node, "title"))
        img == querySelectorAll(node, "img[alt]")
        imgAlt == IF img = <<>> THEN <<>>
                  ELSE normalizeWhitespace(getAttribute(img[1], "alt"))
    IN  IF text # <<>> THEN text
        ELSE IF ariaLabel # <<>> THEN ariaLabel
        ELSE IF title # <<>> THEN title
        ELSE IF imgAlt # <<>> THEN imgAlt
        ELSE <<>>

\* the filter of ignoreLayoutTables
isLayoutTable(site, node) ==
    /\ node.nodeName = "TABLE"
    /\ LET hasHeaders == Len(querySelectorAll(node, "TH")) > 0
           hasNested == querySelectorAll(node, "TABLE") # <<>>
       IN  IF site = "shared" THEN ~hasHeaders ELSE ~hasHeaders /\ hasNested

\* the filter of preserveBlankLinks (shared) and of removeBlankLinks (main, shim)
isBlankLink(site, node) ==
    /\ node.nodeName = "A"
    /\ hasAttribute(node, "href")
    /\ IF site = "shared" THEN normalizeWhitespace(textContent(<<node>>)) = <<>>
       ELSE trim(textContent(<<node>>)) = <<>>

\* the replacement of preserveBlankLinks (shared) and of removeBlankLinks (main,
\* shim)
blankLink(site, node) ==
    IF site = "shared"
    THEN LET href == trim(getAttribute(node, "href"))
             label == IF getLinkLabel(node) # <<>> THEN getLinkLabel(node) ELSE href
         IN  IF href = <<>> THEN label
             ELSE <<"[">> \o label \o <<"]", "(">> \o href \o <<")">>
    ELSE <<>>

\* the engine: a blank node is an element with only white space in it that means
\* nothing when blank and holds no element that does
isBlank(node) ==
    LET meaningfulWhenBlank == {"A", "TABLE", "TR", "TD", "TH"}
    IN  /\ node.nodeName \notin VoidElements \cup meaningfulWhenBlank
        /\ trim(textContent(<<node>>)) = <<>>
        /\ \A i \in 1..Len(descendants(node.childNodes)) :
              descendants(node.childNodes)[i].nodeName
                  \notin VoidElements \cup meaningfulWhenBlank

\* the replacement of the first rule whose filter takes the element: the blank
\* rule, the added rules, the table extension, the rules for links and images,
\* keep, remove, and the default rule.  index is the place of the node among the
\* children of its parent, from 0.
replacement(site, node, index, content) ==
    LET \* the engine: the block elements
        blockElements == {"TABLE", "TR", "TD", "TH", "NAV"}
        \* turndown.remove([...])
        removed ==
            IF site = "shared"
            THEN {"SCRIPT", "STYLE", "NOSCRIPT", "IFRAME", "OBJECT", "EMBED", "META",
                  "LINK"}
            ELSE {"SCRIPT", "STYLE", "NOSCRIPT", "IFRAME", "OBJECT", "EMBED", "NAV",
                  "FOOTER", "ASIDE", "META", "LINK"}
        \* the table extension: the first row of the table is made of header cells
        isHeadingRow(row) ==
            /\ row.childNodes # <<>>
            /\ \A i \in 1..Len(row.childNodes) : row.childNodes[i].nodeName = "TH"
        padded(text) == <<"\n", "\n">> \o text \o <<"\n", "\n">>
        \* the table extension: a cell, the first of its row or a later one
        cell(text, i) ==
            (IF i = 0 THEN <<"|", " ">> ELSE <<" ">>) \o text \o <<" ", "|">>
        \* the table extension: the line under a heading row, from its i-th cell
        RECURSIVE borderCells(_, _)
        borderCells(row, i) ==
            IF i > Len(row.childNodes) THEN <<>>
            ELSE cell(<<"-", "-", "-">>, i - 1) \o borderCells(row, i + 1)
        \* content.replace("\n\n", "\n"): the first occurrence
        RECURSIVE replaceFirstBlankLine(_)
        replaceFirstBlankLine(s) ==
            IF s = <<>> THEN <<>>
            ELSE IF startsWith(s, <<"\n", "\n">>) THEN SubSeq(s, 2, Len(s))
            ELSE <<Head(s)>> \o replaceFirstBlankLine(Tail(s))
    IN  IF isBlank(node)
        THEN (IF node.nodeName \in blockElements THEN <<"\n", "\n">> ELSE <<>>)
        ELSE IF isBlankLink(site, node) THEN blankLink(site, node)
        ELSE IF isLayoutTable(site, node) THEN padded(content)
        ELSE IF node.nodeName \in {"TH", "TD"} THEN cell(content, index)
        ELSE IF node.nodeName = "TR"
        THEN <<"\n">> \o content
             \o (IF index = 0 /\ isHeadingRow(node)
                 THEN <<"\n">> \o borderCells(node, 1)
                 ELSE <<>>)
        ELSE IF /\ node.nodeName = "TABLE" /\ node.childNodes # <<>>
                /\ isHeadingRow(node.childNodes[1])
        THEN padded(replaceFirstBlankLine(content))
        ELSE IF node.nodeName = "A" /\ getAttribute(node, "href") # <<>>
        THEN <<"[">> \o content \o <<"]", "(">> \o getAttribute(node, "href")
             \o (IF getAttribute(node, "title") # <<>>
                 THEN <<" ", "\"">> \o getAttribute(node, "title") \o <<"\"">>
                 ELSE <<>>)
             \o <<")">>
        ELSE IF node.nodeName = "IMG"
        THEN (IF getAttribute(node, "src") # <<>>
              THEN <<"!", "[">> \o getAttribute(node, "alt") \o <<"]", "(">>
                   \o getAttribute(node, "src") \o <<")">>
              ELSE <<>>)
        ELSE IF node.nodeName = "TABLE" THEN padded(outerHTML(<<node>>))
        ELSE IF node.nodeName \in removed THEN <<>>
        ELSE IF node.nodeName \in blockElements THEN padded(content)
        ELSE content

\* the engine: trimTrailingNewlines
RECURSIVE trimTrailingNewlines(_)
trimTrailingNewlines(s) ==
    IF s # <<>> /\ s[Len(s)] = "\n" THEN trimTrailingNewlines(SubSeq(s, 1, Len(s) - 1))
    ELSE s

\* the engine: join, which lets at most two line ends stand between two outputs;
\* s2 is trimLeadingNewlines(text)
join(output, text) ==
    LET s1 == trimTrailingNewlines(output)
        s2 == SubSeq(text, firstOutside(text, {"\n"}, 1), Len(text))
        a == Len(output) - Len(s1)
        b == Len(text) - Len(s2)
        nls == IF a > b THEN a ELSE b
    IN  s1 \o SubSeq(<<"\n", "\n">>, 1, IF nls < 2 THEN nls ELSE 2) \o s2

\* the engine: process, the children of a node from the k-th on, after output.
\* The white space of a text is collapsed and, the texts converted here standing
\* alone in their block, cut at both ends; they hold no character that is escaped.
RECURSIVE process(_, _, _, _)
process(site, nodes, k, output) ==
    IF k > Len(nodes) THEN output
    ELSE LET node == nodes[k]
             text == IF node.nodeName = "#text" THEN normalizeWhitespace(node.data)
                     ELSE replacement(site, node, k - 1,
                                      process(site, node.childNodes, 1, <<>>))
         IN  process(site, nodes, k + 1, join(output, text))

\* turndown.turndown, on parsed markup: process, then the line ends and tabs at
\* the start and the white space at the end are cut
turndown(site, nodes) ==
    LET output == process(site, nodes, 1, <<>>)
    IN  trimEnd(SubSeq(output, firstOutside(output, {"\t", "\n"}, 1), Len(output)))

----------------------------------------------------------------------------
(* The converter called on its own, on one element *)

Str_example == <<"h", "t", "t", "p", "s", ":", "/", "/", "e", "x", "a", "m", "p", "l",
    "e", ".", "c", "o", "m">>

Image == Element("IMG", << <<"src", <<"s">>>>, <<"alt", <<"n", "e", "e", "d", "l", "e",
    " ", "t", "o", "o", "l", "s", " ", "l", "o", "g", "o">>>> >>, <<>>)

\* anchors without text: empty, with white space only, or around an image; each
\* attribute is absent or has one of a few values
BlankAnchors ==
    LET hrefs == {<<>>, << <<"href", <<>> >> >>, << <<"href", Str_example>> >>}
        ariaLabels ==
            {<<>>, << <<"aria-label", <<"E", "x", "a", "m", "p", "l", "e">>>> >>,
             << <<"aria-label", <<" ">>>> >>}
        titles == {<<>>, << <<"title", <<"t">>>> >>}
    IN  {Element("A", h \o a \o t, c) :
            h \in hrefs, a \in ariaLabels, t \in titles,
            c \in {<<>>, <<Text(<<" ">>)>>, <<Image>>}}

\* an anchor with text on several lines
TextAnchor == Element("A", << <<"href", Str_example>> >>, <<Text(<<"\n", " ", " ", "E",
    "x", "a", "m", "p", "l", "e", "\n">>)>>)

\* a table of one row and one cell
Table(cellName, content) ==
    Element("TABLE", <<>>, <<Element("TR", <<>>, <<Element(cellName, <<>>,
        content)>>)>>)

\* tables with and without header cells, with and without a table inside
Tables ==
    {Table(c, n) : c \in {"TD", "TH"},
                   n \in {<<Text(<<"x">>)>>, <<Table("TD", <<Text(<<"x">>)>>)>>}}

Nav == Element("NAV", <<>>, <<Text(<<"x">>)>>)

Elements == BlankAnchors \cup {TextAnchor, Nav} \cup Tables

\* turndown.turndown(html)
Turndown ==
    /\ call.fn = "turndown"
    /\ result = <<>>
    /\ result' = <<turndown(call.site, call.html)>>
    /\ UNCHANGED <<isShim, tabs, activeTabId, nextTabId, shimState, pending, appStore,
                   settings, refresh, call>>

\* the first of the texts that is not empty once trimmed, trimmed
RECURSIVE FirstNonEmpty(_)
FirstNonEmpty(texts) ==
    IF texts = <<>> THEN <<>>
    ELSE IF trim(Head(texts)) # <<>> THEN trim(Head(texts))
    ELSE FirstNonEmpty(Tail(texts))

\* the shared converter was called on an anchor without text and has returned
BlankAnchorConverted ==
    /\ call.fn = "turndown" /\ call.site = "shared" /\ Len(result) = 1
    /\ call.html[1] \in BlankAnchors

\* C27: an anchor without visible text is not dropped: its label is its
\* aria-label, else its title, else the alt text of the image in it, else its
\* href; it becomes [label](href), and the label alone when it has no href
C27_EmptyAnchorLabelFallback ==
    BlankAnchorConverted
    => LET node == call.html[1]
           img == querySelectorAll(node, "img[alt]")
           href == trim(getAttribute(node, "href"))
           label == FirstNonEmpty(<<getAttribute(node, "aria-label"),
                                    getAttribute(node, "title"),
                                    IF img = <<>> THEN <<>> ELSE getAttribute(img[1],
                                        "alt"),
                                    href>>)
       IN  result[1] = IF href # <<>> THEN <<"[">> \o label \o <<"]",
           "(">> \o href \o <<")">>
                       ELSE label

\* a converter was called on a table without header cells, alone or between two
\* words, and has returned
LayoutTableConverted ==
    /\ call.fn = "turndown" /\ Len(result) = 1
    /\ \E i \in 1..Len(call.html) :
          /\ call.html[i] \in Tables
          /\ querySelectorAll(call.html[i], "TH") = <<>>

\* C29: layout tables are suppressed in the same way by every converter: a table
\* without header cells, with or without a table inside, is emitted as its
\* converted content with a blank line before and after it, never as a table
C29_LayoutTableSuppressed ==
    LayoutTableConverted
    => LET table == IF Len(call.html) = 1 THEN call.html[1] ELSE call.html[2]
           content == turndown(call.site, table.childNodes)
       IN  /\ result[1] = IF Len(call.html) = 1 THEN content
                          ELSE <<"p", "\n", "\n">> \o content \o <<"\n", "\n", "q">>
           /\ ~includesText(result[1], <<"<", "t", "a", "b", "l", "e">>)

----------------------------------------------------------------------------
(* The document pipeline: fetchPage and shimFetchPage once the response is there  *)

\* the first index i >= from at which s has p, 0 when there is none
indexOfText(s, p, from) ==
    LET hits == {i \in from..Len(s) : startsWithAt(s, p, i)}
    IN  IF hits = {} THEN 0 ELSE CHOOSE i \in hits : \A j \in hits : i <= j

\* text.replace(/<tag[\s\S]*?<\/tag>/gi, ""): each region from an open that has
\* a close after it to the first such close
RECURSIVE stripRegions(_, _, _)
stripRegions(s, open, close) ==
    LET hits == {i \in 1..Len(s) : /\ startsWithAt(s, open, i)
                                   /\ indexOfText(s, close, i + Len(open)) # 0}
        i == CHOOSE i \in hits : \A j \in hits : i <= j
        k == indexOfText(s, close, i + Len(open))
    IN  IF hits = {} THEN s
        ELSE SubSeq(s, 1, i - 1)
             \o stripRegions(SubSeq(s, k + Len(close), Len(s)), open, close)

\* text.replace(/<a[^>]*>\s*<\/a>/gi, ""); matchEnd(i) is the index of the last
\* character of the match of the expression tried at index i, 0 when there is none
RECURSIVE stripEmptyAnchors(_)
stripEmptyAnchors(s) ==
    LET matchEnd(i) ==
            LET j == IF startsWithAt(s, <<"<", "a">>, i) THEN firstIndex(s, ">", i + 2)
                     ELSE 0
                e == firstOutside(s, Whitespace, j + 1)
            IN  IF j # 0 /\ startsWithAt(s, <<"<", "/", "a", ">">>, e) THEN e + 3 ELSE 0
        hits == {i \in 1..Len(s) : matchEnd(i) # 0}
        i == CHOOSE i \in hits : \A j \in hits : i <= j
    IN  IF hits = {} THEN s
        ELSE SubSeq(s, 1, i - 1) \o stripEmptyAnchors(SubSeq(s, matchEnd(i) + 1, Len(s)))

\* the markup handed to the converter: the regions stripped in order
\* (text.replace(/<tag[\s\S]*?<\/tag>/gi, "")), then the content of main, else of
\* article, else of body, else all of it
\* (cleanHtml.match(/<tag[\s\S]*?>([\s\S]*?)<\/tag>/i): the first open, the first
\* ">" after it and the first close after that)
cleanHtml(text) ==
    LET stripElements(s, tag) ==
            stripRegions(s, <<"<">> \o tag, <<"<", "/">> \o tag \o <<">">>)
        regionMatch(s, tag) ==
            LET i == indexOfText(s, <<"<">> \o tag, 1)
                j == IF i = 0 THEN 0 ELSE firstIndex(s, ">", i + 1 + Len(tag))
                k == IF j = 0 THEN 0
                     ELSE indexOfText(s, <<"<", "/">> \o tag \o <<">">>, j + 1)
            IN  IF k # 0 THEN [found |-> TRUE, inner |-> SubSeq(s, j + 1, k - 1)]
                ELSE [found |-> FALSE]
        a == stripElements(text, <<"h", "e", "a", "d">>)
        b == stripElements(a, <<"s", "c", "r", "i", "p", "t">>)
        c == stripElements(b, <<"s", "t", "y", "l", "e">>)
        d == stripElements(c, <<"n", "o", "s", "c", "r", "i", "p", "t">>)
        e == stripRegions(d, <<"<", "!", "-", "-">>, <<"-", "-", ">">>)
        f == stripElements(e, <<"n", "a", "v">>)
        g == stripElements(f, <<"f", "o", "o", "t", "e", "r">>)
        h == stripElements(g, <<"a", "s", "i", "d", "e">>)
        k == stripElements(h, <<"f", "o", "r", "m">>)
        l == stripElements(k, <<"i", "f", "r", "a", "m", "e">>)
        m == stripEmptyAnchors(l)
        mainMatch == regionMatch(m, <<"m", "a", "i", "n">>)
        articleMatch == regionMatch(m, <<"a", "r", "t", "i", "c", "l", "e">>)
        bodyMatch == regionMatch(m, <<"b", "o", "d", "y">>)
    IN  IF mainMatch.found THEN mainMatch.inner
        ELSE IF articleMatch.found THEN articleMatch.inner
        ELSE IF bodyMatch.found THEN bodyMatch.inner
        ELSE m

\* text.match(/<title[^>]*>([^<]+)<\/title>/i), from index i on: the text of the
\* first title element that has one, <<>> when there is none
RECURSIVE titleMatch(_, _)
titleMatch(s, i) ==
    LET t == indexOfText(s, <<"<", "t", "i", "t", "l", "e">>, i)
        j == IF t = 0 THEN 0 ELSE firstIndex(s, ">", t + 6)
        k == IF j = 0 THEN 0 ELSE firstIndex(s, "<", j + 1)
    IN  IF t = 0 THEN <<>>
        ELSE IF k > j + 1 /\ startsWithAt(s, <<"<", "/", "t", "i", "t", "l", "e",
            ">">>, k) THEN SubSeq(s, j + 1, k - 1)
        ELSE titleMatch(s, t + 1)

\* markdown.match(/^#\s+(.+)$/m): what (.+) takes of the first match, the rest
\* of its line; <<>> when there is no match.  groupAt(i) is the index at which
\* (.+) starts when the expression is tried at index i, 0 when it does not match:
\* the white space is taken as far as it goes and given back until a character
\* of a line follows it.
headingMatch(s) ==
    LET groupAt(i) ==
            LET e == firstOutside(s, Whitespace, i + 1)
                starts == {m \in (i + 2)..e : m <= Len(s) /\ s[m] # "\n"}
            IN  IF s[i] = "#" /\ (i = 1 \/ s[i - 1] = "\n") /\ starts # {}
                THEN CHOOSE m \in starts : \A n \in starts : n <= m
                ELSE 0
        hits == {i \in 1..Len(s) : groupAt(i) # 0}
        i == CHOOSE i \in hits : \A j \in hits : i <= j
        nl == firstIndex(s, "\n", groupAt(i))
    IN  IF hits = {} THEN <<>>
        ELSE SubSeq(s, groupAt(i), IF nl = 0 THEN Len(s) ELSE nl - 1)

\* the classification without the trim of the text
isMarkdownResponse_Untrimmed(contentType, text) ==
    \/ includesText(contentType, <<"t", "e", "x", "t", "/", "m", "a", "r", "k", "d",
        "o", "w", "n">>)
    \/ includesText(contentType, <<"t", "e", "x", "t", "/", "x", "-", "m", "a", "r",
        "k", "d", "o", "w", "n">>)
    \/ /\ includesText(contentType, <<"t", "e", "x", "t", "/", "p", "l", "a", "i",
        "n">>)
       /\ ~startsWith(text, <<"<", "!">>)
       /\ ~startsWith(text, <<"<", "h", "t", "m", "l">>)

\* the response is markdown, or plain text that is not markup
isMarkdownResponse(contentType, text) ==
    \/ includesText(contentType, <<"t", "e", "x", "t", "/", "m", "a", "r", "k", "d",
        "o", "w", "n">>)
    \/ includesText(contentType, <<"t", "e", "x", "t", "/", "x", "-", "m", "a", "r",
        "k", "d", "o", "w", "n">>)
    \/ /\ includesText(contentType, <<"t", "e", "x", "t", "/", "p", "l", "a", "i",
        "n">>)
       /\ ~startsWith(trim(text), <<"<", "!">>)
       /\ ~startsWith(trim(text), <<"<", "h", "t", "m", "l">>)

\* the parser of the engine: the nodes whose markup the text is, among the
\* markup the converters are handed here
parseHTML(html) ==
    CHOOSE nodes \in {<<>>, <<Text(<<"x">>)>>} \cup {<<e>> : e \in Elements} :
        outerHTML(nodes) = html

\* START_PAGE_MARKDOWN and START_PAGE_HTML, cut down to the heading and the first
\* link, and to the first link
START_PAGE_MARKDOWN == <<"#", " ", "M", "D", "B", "r", "o", "w", "s", "e", "\n", "\n",
    "-", " ", "[", "E", "x", "a", "m", "p", "l", "e", "]", "(", "h", "t", "t", "p",
    "s", ":", "/", "/", "e", "x", "a", "m", "p", "l", "e", ".", "c", "o", "m", ")",
    "\n">>

START_PAGE_HTML == outerHTML(<<TextAnchor>>)

\* fetchPage(START_PAGE_URL), with the converter of the site
startPage(site) ==
    IF settings.sendAcceptMd
    THEN [url |-> START_PAGE_URL, markdown |-> START_PAGE_MARKDOWN, rawHtml |-> <<>>,
          title |-> START_PAGE_TITLE, wasMarkdown |-> TRUE]
    ELSE [url |-> START_PAGE_URL,
          markdown |-> IF settings.autoConvert
                       THEN cleanupTurndownOutput(site,
                                turndown(site, parseHTML(START_PAGE_HTML)))
                       ELSE START_PAGE_HTML,
          rawHtml |-> START_PAGE_HTML,
          title |-> START_PAGE_TITLE, wasMarkdown |-> FALSE]

\* fetchPage, the catch branch (main process only): the error document
errorPage(url, errorMessage) ==
    [url |-> url,
     markdown |-> <<"#", " ", "E", "r", "r", "o", "r", " ", "L", "o", "a", "d", "i",
         "n", "g", " ", "P", "a", "g", "e", "\n", "\n", "F", "a", "i", "l", "e", "d",
         " ", "t", "o", " ", "l", "o", "a", "d", ":", " ">> \o url
                  \o <<"\n", "\n", "*", "*", "E", "r", "r", "o", "r", ":", "*", "*",
                      " ">> \o errorMessage,
     rawHtml |-> <<"<", "h", "1", ">", "E", "r", "r", "o", "r", " ", "L", "o", "a",
         "d", "i", "n", "g", " ", "P", "a", "g", "e", "<", "/", "h", "1", ">", "<",
         "p", ">", "F", "a", "i", "l", "e", "d", " ", "t", "o", " ", "l", "o", "a",
         "d", ":", " ">> \o url
                 \o <<"<", "/", "p", ">", "<", "p", ">", "<", "s", "t", "r", "o", "n",
                     "g", ">", "E", "r", "r", "o", "r", ":", "<", "/", "s", "t", "r",
                     "o", "n", "g", ">", " ">> \o errorMessage \o <<"<", "/", "p",
                     ">">>,
     title |-> ErrorTitle, wasMarkdown |-> FALSE]

\* fetchedPage that keeps the text of a markdown response as its rawHtml
fetchedPage_KeepsRaw(site, finalUrl, contentType, text) ==
    IF isMarkdownResponse(contentType, text)
    THEN [url |-> finalUrl, markdown |-> text, rawHtml |-> text,
          title |-> IF headingMatch(text) # <<>> THEN headingMatch(text)
                    ELSE hostname(finalUrl),
          wasMarkdown |-> TRUE]
    ELSE [url |-> finalUrl,
          markdown |-> IF settings.autoConvert
                       THEN cleanupTurndownOutput(site,
                                turndown(site, parseHTML(cleanHtml(text))))
                       ELSE text,
          rawHtml |-> text,
          title |-> IF titleMatch(text, 1) # <<>> THEN trim(titleMatch(text, 1))
                    ELSE hostname(finalUrl),
          wasMarkdown |-> FALSE]

\* fetchedPage that converts whatever settings.autoConvert is
fetchedPage_AlwaysConverts(site, finalUrl, contentType, text) ==
    IF isMarkdownResponse(contentType, text)
    THEN [url |-> finalUrl, markdown |-> text, rawHtml |-> <<>>,
          title |-> IF headingMatch(text) # <<>> THEN headingMatch(text)
                    ELSE hostname(finalUrl),
          wasMarkdown |-> TRUE]
    ELSE [url |-> finalUrl,
          markdown |-> cleanupTurndownOutput(site,
                           turndown(site, parseHTML(cleanHtml(text)))),
          rawHtml |-> text,
          title |-> IF titleMatch(text, 1) # <<>> THEN trim(titleMatch(text, 1))
                    ELSE hostname(finalUrl),
          wasMarkdown |-> FALSE]

\* fetchPage and shimFetchPage from the response on: text is the decoded body
fetchedPage(site, finalUrl, contentType, text) ==
    IF isMarkdownResponse(contentType, text)
    THEN [url |-> finalUrl, markdown |-> text, rawHtml |-> <<>>,
          title |-> IF headingMatch(text) # <<>> THEN headingMatch(text)
                    ELSE hostname(finalUrl),
          wasMarkdown |-> TRUE]
    ELSE [url |-> finalUrl,
          markdown |-> IF settings.autoConvert
                       THEN cleanupTurndownOutput(site,
                                turndown(site, parseHTML(cleanHtml(text))))
                       ELSE text,
          rawHtml |-> text,
          title |-> IF titleMatch(text, 1) # <<>> THEN trim(titleMatch(text, 1))
                    ELSE hostname(finalUrl),
          wasMarkdown |-> FALSE]

----------------------------------------------------------------------------
(* fetchPage called on its own *)

\* a page: the elements alone, or in a document with a head, after a doctype or
\* after white space
Page(kind, nodes) ==
    CASE kind = "bare" -> outerHTML(nodes)
      [] kind = "doctype" ->
            <<"<", "!", "d", "o", "c", "t", "y", "p", "e", " ", "h", "t", "m", "l",
                ">", "<", "h", "t", "m", "l", ">", "<", "h", "e", "a", "d", ">", "<",
                "t", "i", "t", "l", "e", ">", " ", "T", " ", "<", "/", "t", "i", "t",
                "l", "e", ">", "<", "/", "h", "e", "a", "d", ">", "<", "b", "o", "d",
                "y", ">">>
            \o outerHTML(nodes) \o <<"<", "/", "b", "o", "d", "y", ">", "<", "/", "h",
                "t", "m", "l", ">">>
      [] kind = "html" ->
            <<" ", "<", "h", "t", "m", "l", ">", "<", "b", "o", "d", "y",
                ">">> \o outerHTML(nodes) \o <<"<", "/", "b", "o", "d", "y", ">", "<",
                "/", "h", "t", "m", "l", ">">>

\* the responses: markdown and markup under the content types that name markdown
\* or plain text (one with a charset), markup and a word under these, under no
\* content type and under text/html
Responses ==
    LET markdownTypes ==
            { <<"t", "e", "x", "t", "/", "p", "l", "a", "i", "n">>,
              <<"t", "e", "x", "t", "/", "m", "a", "r", "k", "d", "o", "w", "n">>,
              <<"t", "e", "x", "t", "/", "x", "-", "m", "a", "r", "k", "d", "o", "w",
                "n", ";", " ", "c", "h", "a", "r", "s", "e", "t", "=", "u", "t", "f",
                "-", "8">> }
        contentTypes ==
            markdownTypes \cup { <<>>, <<"t", "e", "x", "t", "/", "h", "t", "m", "l">> }
        pageElements ==
            { Element("A", << <<"href", Str_example>>,
                              <<"aria-label", <<"E", "x", "a", "m", "p", "l", "e">>>> >>,
                      <<>>),
              Element("A", << <<"href", Str_example>> >>, <<Image>>),
              TextAnchor,
              Table("TD", <<Text(<<"x">>)>>),
              Nav }
        markupTexts ==
            {Page(kind, <<e>>) : kind \in {"bare", "doctype", "html"}, e \in pageElements}
        markdownTexts == { <<"#", " ", "T", "\n", "x">>, <<"x">> }
    IN  {[contentType |-> c, text |-> t] : c \in markdownTypes, t \in markdownTexts}
        \cup {[contentType |-> c, text |-> t] :
                c \in contentTypes, t \in markupTexts \cup {<<"x">>}}

\* await fetchPage(url), await shimFetchPage(url): the document, or NULL when the
\* promise is rejected
FetchPage ==
    /\ call.fn = "fetchPage"
    /\ result = <<>>
    /\ result' = IF call.url = START_PAGE_URL THEN <<startPage(call.site)>>
                 ELSE IF call.ok
                 THEN <<fetchedPage(call.site, Redirect(call.url),
                                    call.response.contentType, call.response.text)>>
                 ELSE IF call.site = "main" THEN <<errorPage(call.url, call.message)>>
                 ELSE <<NULL>>
    /\ UNCHANGED <<isShim, tabs, activeTabId, nextTabId, shimState, pending, appStore,
                   settings, refresh, call>>

----------------------------------------------------------------------------
(* The pipeline functions called on their own: the specification *)

\* the browser is left as it starts
ConvertInit ==
    /\ isShim = FALSE
    /\ tabs = <<EmptyTab(1, NewTabTitle)>>
    /\ activeTabId = 1
    /\ nextTabId = 2
    /\ shimState = [tabs |-> <<>>, activeTabId |-> 1, nextTabId |-> 1]
    /\ pending = <<>>
    /\ appStore = [currentUrl |-> <<>>, isLoading |-> FALSE, canGoBack |-> FALSE,
                   canGoForward |-> FALSE]
    /\ refresh = FALSE
    /\ call \in
          LET \* the texts of at most MaxFragments pieces
              cleanupCalls ==
                  {[fn |-> "cleanupTurndownOutput", site |-> site, markdown |-> t] :
                      site \in Sites, t \in Texts(MaxFragments)}
              \* an element alone, or a table between two words
              turndownCalls ==
                  {[fn |-> "turndown", site |-> site, html |-> <<e>>] :
                      site \in Sites, e \in Elements}
                  \cup {[fn |-> "turndown", site |-> site,
                          html |-> <<Text(<<"p">>), t, Text(<<"q">>)>>] :
                          site \in Sites, t \in Tables}
              \* the start page, a page that answers (after a redirect), and a
              \* request that fails
              fetchCalls ==
                  {[fn |-> "fetchPage", site |-> site, url |-> START_PAGE_URL] :
                      site \in {"main", "shim"}}
                  \cup {[fn |-> "fetchPage", site |-> site, url |-> URL_B, ok |-> TRUE,
                         response |-> r] : site \in {"main", "shim"}, r \in Responses}
                  \cup {[fn |-> "fetchPage", site |-> site, url |-> URL_A, ok |-> FALSE,
                         message |-> <<"f", "e", "t", "c", "h", " ", "f", "a", "i", "l",
                                       "e", "d">>] : site \in {"main", "shim"}}
              \* what is typed into the address bar: words, a host name, urls
              navigateCalls ==
                  {[fn |-> "navigateToUrl", site |-> "main", url |-> u] :
                      u \in {<<>>, <<" ">>, <<"x">>, <<" ", "x", " ">>, <<"a", " ", "b">>,
                              <<"a", ".", "b", " ", "c">>, <<"a", ".", "b">>,
                              START_PAGE_URL, URL_B}}
          IN  cleanupCalls \cup turndownCalls \cup fetchCalls \cup navigateCalls
    /\ settings \in IF call.fn = "fetchPage"
                    THEN [sendAcceptMd : BOOLEAN, autoConvert : BOOLEAN]
                    ELSE {DefaultSettings}
    /\ result = <<>>

\* markdown = cleanupTurndownOutput(markdown), on the text first and then on
\* what the call before returned
CleanupTurndownOutput ==
    /\ call.fn = "cleanupTurndownOutput"
    /\ Len(result) < 2
    /\ result' = Append(result,
                        cleanupTurndownOutput(call.site,
                            IF result = <<>> THEN call.markdown ELSE result[Len(result)]))
    /\ UNCHANGED <<isShim, tabs, activeTabId, nextTabId, shimState, pending, appStore,
                   settings, refresh, call>>

\* navigateToUrl of the toolbar outside the shim: the url of the navigate
\* request it sends, and the url the navigate handler makes of it and fetches
NavigateToUrl ==
    /\ call.fn = "navigateToUrl"
    /\ result = <<>>
    /\ LET normalizedUrl == shimNormalizeUrl(call.url)
       IN  result' = IF normalizedUrl = <<>> THEN <<>>
                     ELSE <<normalizedUrl, normalizeUrl(normalizedUrl)>>
    /\ UNCHANGED <<isShim, tabs, activeTabId, nextTabId, shimState, pending, appStore,
                   settings, refresh, call>>

ConvertNext ==
    \/ CleanupTurndownOutput
    \/ Turndown
    \/ FetchPage
    \/ NavigateToUrl

ConvertSpec == ConvertInit /\ [][ConvertNext]_vars

----------------------------------------------------------------------------
(* The documents of fetchPage *)

\* fetchPage has returned a document
FetchDone == call.fn = "fetchPage" /\ Len(result) = 1 /\ result[1] # NULL

\* fetchPage has returned the document of a response
ResponseFetched == FetchDone /\ call.url # START_PAGE_URL /\ call.ok

\* C21: every document fetchPage returns (of a markdown response, converted
\* from markup, the start page, the error document) that has wasMarkdown true
\* has an empty rawHtml
C21_NativeHasNoRawMarkup ==
    (FetchDone /\ result[1].wasMarkdown) => result[1].rawHtml = <<>>

\* a markdown response with a text has been returned as a document
C21_Witness ==
    /\ ResponseFetched
    /\ result[1].wasMarkdown
    /\ call.response.text # <<>>
    /\ result[1].markdown = call.response.text

\* the classification the specification states: the content type contains
\* text/markdown or text/x-markdown, or it contains text/plain and the trimmed
\* text starts with neither "<!" nor "<html"
StatedNative(response) ==
    LET trimmed == trim(response.text)
        opens(p) == Len(trimmed) >= Len(p) /\ \A i \in 1..Len(p) : trimmed[i] = p[i]
        names(t) == \E i \in 1..Len(response.contentType) :
                        /\ i + Len(t) - 1 <= Len(response.contentType)
                        /\ \A j \in 1..Len(t) : response.contentType[i + j - 1] = t[j]
    IN  \/ names(<<"t", "e", "x", "t", "/", "m", "a", "r", "k", "d", "o", "w", "n">>)
        \/ names(<<"t", "e", "x", "t", "/", "x", "-", "m", "a", "r", "k", "d", "o",
            "w", "n">>)
        \/ names(<<"t", "e", "x", "t", "/", "p", "l", "a", "i", "n">>) /\ ~opens(<<"<",
            "!">>) /\ ~opens(<<"<", "h", "t", "m", "l">>)

\* C22: a response is returned with wasMarkdown true exactly when it is native
\* by the stated classification; the document of a native response has the
\* decoded text as its markdown, unchanged, and an empty rawHtml; every other
\* response is returned as markup, wasMarkdown false
C22_Classification ==
    ResponseFetched =>
        /\ result[1].wasMarkdown = StatedNative(call.response)
        /\ StatedNative(call.response) =>
              /\ result[1].markdown = call.response.text
              /\ result[1].rawHtml = <<>>

\* a plain-text response whose text is a document after white space has been
\* returned as markup, and one that is markdown as markdown
C22_Witness ==
    /\ ResponseFetched
    /\ call.response.contentType = <<"t", "e", "x", "t", "/", "p", "l", "a", "i", "n">>
    /\ Head(call.response.text) = " "
    /\ startsWith(trim(call.response.text), <<"<", "h", "t", "m", "l">>)
    /\ ~result[1].wasMarkdown

\* C23: with autoConvert disabled, the document of a markup response has the
\* raw markup, unchanged, as its markdown and as its rawHtml, and wasMarkdown
\* false
C23_NoConversionWhenDisabled ==
    (ResponseFetched /\ ~settings.autoConvert /\ ~StatedNative(call.response)) =>
        /\ result[1].markdown = call.response.text
        /\ result[1].rawHtml = call.response.text
        /\ ~result[1].wasMarkdown

\* with autoConvert disabled a page with a head and a body around its link has
\* been returned as it came
C23_Witness ==
    /\ ResponseFetched
    /\ ~settings.autoConvert
    /\ ~StatedNative(call.response)
    /\ startsWith(call.response.text, <<"<", "!", "d", "o", "c", "t", "y", "p", "e">>)
    /\ result[1].markdown = call.response.text

\* the empty anchor with an href and the aria-label "Example"
LabelledAnchor ==
    Element("A", << <<"href", Str_example>>, <<"aria-label", <<"E", "x", "a", "m", "p",
        "l", "e">>>> >>, <<>>)

\* C28: fetchPage of a markup response, with autoConvert enabled, whose page
\* holds an anchor with an href, the aria-label "Example" and no text returns a
\* document whose markdown contains the link labelled Example to that href
C28_PipelineKeepsLabelledAnchor ==
    (/\ ResponseFetched
     /\ settings.autoConvert
     /\ ~StatedNative(call.response)
     /\ \E kind \in {"bare", "doctype", "html"} :
            call.response.text = Page(kind, <<LabelledAnchor>>))
    => includesText(result[1].markdown, <<"[", "E", "x", "a", "m", "p", "l", "e", "]",
        "(">> \o Str_example \o <<")">>)

----------------------------------------------------------------------------
(* The output of the normalizer *)

\* a call of cleanupTurndownOutput, of any copy, has returned
CleanupDone == call.fn = "cleanupTurndownOutput" /\ Len(result) >= 1

\* the text from index a to index b is a line of s: it is bounded by line ends
\* or the ends of the text and holds no line end
IsLine(s, a, b) ==
    /\ a = 1 \/ s[a - 1] = "\n"
    /\ b = Len(s) \/ s[b + 1] = "\n"
    /\ \A i \in a..b : s[i] # "\n"

\* digits, a period, and white space only after it
IsMarkerLine(line) ==
    \E d \in 1..Len(line) :
        /\ d >= 2
        /\ \A i \in 1..(d - 1) : line[i] \in {"0", "1", "2", "3", "4", "5", "6", "7",
                                              "8", "9"}
        /\ line[d] = "."
        /\ \A i \in (d + 1)..Len(line) : line[i] \in {" ", "\t"}

\* C31: the output of cleanupTurndownOutput has no white space at its start or
\* its end, no three line ends in a row, and no line that is digits followed by
\* a period and optional white space
C31_CleanupOutputShape ==
    CleanupDone =>
        LET out == result[1]
        IN  /\ out = <<>> \/ (~IsSpace(out[1]) /\ ~IsSpace(out[Len(out)]))
            /\ ~includesText(out, <<"\n", "\n", "\n">>)
            /\ \A a \in 1..Len(out) : \A b \in a..Len(out) :
                  IsLine(out, a, b) => ~IsMarkerLine(SubSeq(out, a, b))

----------------------------------------------------------------------------
(* Requests that have nothing to do *)

----------------------------------------------------------------------------
(* The cursor, the url and the document of a tab *)

\* no fetch issued for the tab id is in flight
Settled(id) == \A i \in 1..Len(pending) : pending[i].tab # id

\* C33: whenever a tab has a history that is not empty and no fetch in flight,
\* its url is the entry of its history the cursor is on.
C33_CursorMarksDisplayedEntry ==
    \A k \in 1..Len(Tabs) :
        (Tabs[k].history # <<>> /\ Settled(Tabs[k].id))
        => /\ Tabs[k].historyIndex \in 0..(Len(Tabs[k].history) - 1)
           /\ Tabs[k].url = Tabs[k].history[Tabs[k].historyIndex + 1]

\* C34: whenever a tab holds a document and has no fetch in flight, the url of
\* the document is the url of the tab.
C34_DocumentAndUrlAgree ==
    \A k \in 1..Len(Tabs) :
        (Tabs[k].content # NULL /\ Settled(Tabs[k].id))
        => Tabs[k].content.url = Tabs[k].url

\* C35: a fetch that completes for a tab that is not the active tab, or that was
\* closed meanwhile, sends no document to the view: the toolbar store is left as
\* the navigation state and the end of loading alone leave it, and the url it
\* shows is not replaced by the url of the document of the other tab.
C35_BackgroundFetchNotShown ==
    [][\A i \in 1..Len(pending) : \A content \in Results(pending[i]) :
         (~isShim /\ CompleteFetch(i, content) /\ pending[i].tab # activeTabId)
         => appStore' = sendLoadingFinished(
                            sendNavigationState(appStore, tabs', activeTabId))]_vars

\* C36: a tab is loading whenever a fetch issued for it has not completed; when
\* two navigations overlap on a tab, the completion of the first leaves the tab
\* loading while the second is in flight.
C36_LoadingWhileFetchInFlight ==
    \A i \in 1..Len(pending) :
        HasTab(Tabs, pending[i].tab) => TabOf(Tabs, pending[i].tab).isLoading

----------------------------------------------------------------------------
(* The two tab managers side by side: one tab in the main process (tabs) and
   one in the browser shim (shimState), every request given to both and every
   fetch answered to both with the same document. *)

PairInit ==
    /\ isShim = FALSE
    /\ tabs = <<EmptyTab(1, NewTabTitle)>>
    /\ activeTabId = 1
    /\ nextTabId = 2
    /\ shimState = ensureShimTab([tabs |-> <<>>, activeTabId |-> 1, nextTabId |-> 1])
    /\ pending = <<>>
    /\ appStore = [currentUrl |-> <<>>, isLoading |-> FALSE, canGoBack |-> FALSE,
                   canGoForward |-> FALSE]
    /\ settings = DefaultSettings
    /\ refresh = FALSE
    /\ call = [fn |-> "none"]
    /\ result = <<>>

\* one request (navigate to url, goBack, goForward, reload) run to completion in
\* both managers; a request whose guard fails leaves its manager's tab alone
PairRequest(op, url) ==
    LET served(u) == IF u = START_PAGE_URL THEN StartContent
                     ELSE PageContent(Redirect(u), settings.sendAcceptMd)
        d == IF op = "goBack" THEN -1 ELSE 1
        tab == tabs[1]
        main == CASE op = "navigate" ->
                       CommitTab([tab EXCEPT !.isLoading = TRUE, !.url = url], op,
                                 served(url))
                  [] op = "reload" ->
                       IF tab.url = <<>> THEN tab
                       ELSE CommitTab([tab EXCEPT !.isLoading = TRUE], op,
                           served(tab.url))
                  [] OTHER ->
                       IF tab.historyIndex + d < 0
                          \/ tab.historyIndex + d > Len(tab.history) - 1
                       THEN tab
                       ELSE CommitTab([tab EXCEPT !.historyIndex = @ + d,
                                                  !.isLoading = TRUE,
                                                  !.url = tab.history[tab.historyIndex + d + 1]],
                                      op, served(tab.history[tab.historyIndex + d + 1]))
        stab == ShimActive(shimState)
        shim == CASE op = "navigate" -> ShimCommitTab(stab, op, served(url))
                  [] op = "reload" ->
                       IF stab.url = <<>> THEN stab
                       ELSE ShimCommitTab(stab, op, served(stab.url))
                  [] OTHER ->
                       IF stab.historyIndex + d < 0
                          \/ stab.historyIndex + d > Len(stab.history) - 1
                       THEN stab
                       ELSE ShimCommitTab([stab EXCEPT !.historyIndex = @ + d], op,
                                          served(stab.history[stab.historyIndex + d + 1]))
    IN  /\ Fits(<<main>>, 2, <<>>)
        /\ Fits(<<shim>>, 2, <<>>)
        /\ tabs' = <<main>>
        /\ shimState' = [shimState EXCEPT !.tabs = SetTab(shimState.tabs, stab.id,
            shim)]
        /\ UNCHANGED <<isShim, activeTabId, nextTabId, pending, appStore, settings,
                       refresh, call, result>>

PairNext ==
    \E op \in {"navigate", "goBack", "goForward", "reload"} :
        \E url \in {START_PAGE_URL, URL_A, URL_B, URL_C} : PairRequest(op, url)

PairSpec == PairInit /\ [][PairNext]_vars

\* C37: whatever requests the two managers have served, with the same
\* documents fetched, they hold the same history and the same history cursor
C37_ManagersAgree ==
    /\ tabs[1].history = ShimActive(shimState).history
    /\ tabs[1].historyIndex = ShimActive(shimState).historyIndex

\* navigateToUrl has sent its navigate request and the handler has normalized it
NavigateToUrlDone == call.fn = "navigateToUrl" /\ result # <<>>

\* an input that is no http(s) or mdbrowse url and has no dot, or has a space
IsSearchTerm(input) ==
    /\ ~startsWith(trim(input), Str_mdbrowse)
    /\ ~matchesHttp(trim(input))
    /\ ~includes(trim(input), ".") \/ includes(trim(input), " ")

\* C38: a search term typed into the toolbar reaches the navigate handler as a
\* target that the handler's normalizeUrl turns into the DuckDuckGo search url
\* of the term, the url that normalizeUrl makes of the term itself
C38_SearchSurvivesToolbar ==
    (NavigateToUrlDone /\ IsSearchTerm(call.url))
        => /\ result[2] = Str_search \o encodeURIComponent(trim(call.url))
           /\ result[2] = normalizeUrl(call.url)

\* the active tab of the main process is there and has no current url
NoCurrentUrl == HasTab(tabs, activeTabId) /\ TabOf(tabs, activeTabId).url = <<>>

\* C39: closeTab and switchTab with an id that matches no tab, and reload and
\* refetchForViewMode on an active tab without a current url, issue no fetch
\* and leave the tabs, their fields and the active tab as they were
C39_InvalidTargetNoEffect ==
    [][(\/ \E tabId \in TabIds :
              /\ ~isShim /\ ~HasTab(tabs, tabId)
              /\ CloseTabRequest(tabId) \/ SwitchTabRequest(tabId)
        \/ /\ NoCurrentUrl
           /\ Reload \/ RefetchForViewMode)
       => /\ tabs' = tabs
          /\ activeTabId' = activeTabId
          /\ pending' = pending]_vars

\* two tabs, the active one without a url, a fetch in flight for the other,
\* and ids that match neither
C39_Witness ==
    /\ ~isShim
    /\ Len(tabs) = 2
    /\ NoCurrentUrl
    /\ pending # <<>>
    /\ \E tabId \in TabIds : ~HasTab(tabs, tabId)

====
